---- MODULE Spec2Model ----
(***************************************************************************)
(* Verification model of the BanHammer anti-cheat engines.                 *)
(*                                                                         *)
(*   SpecUniversal : UniversalAntiCheatEngine + GameProfileManager         *)
(*                   (app/core/universal_anti_cheat.py, game_profiles.py)  *)
(*   SpecHybrid    : HybridAntiCheatEngine, the tiered player-state store  *)
(*                   (app/core/hybrid_anti_cheat.py), with its coroutines  *)
(*                   interleaving at the Redis awaits                      *)
(*                                                                         *)
(* Units.  Time is in seconds (time.time()).  Scores and severities are    *)
(* fixed-point thousandths: the code's 2.0 is 2000, the cap 10.0 is 10000. *)
(***************************************************************************)
EXTENDS Integers, Sequences, FiniteSets, TLC

VARIABLES
    now,               \* time.time()
    ticks,             \* number of clock advances so far (bounds the clock)
    profiles,          \* GameProfileManager.profiles : game_id -> GameProfile
    player_actions,    \* UniversalAntiCheatEngine.player_actions[game][player] (deque)
    violation_scores,  \* UniversalAntiCheatEngine.violation_scores[game][player]
    violation_log,     \* violations returned so far, as the endpoint records them
    result,            \* outcome of the last universal-engine call
    reads,             \* number of score reads so far (bounds the reads)
    memory_players,    \* HybridAntiCheatEngine.memory_players : player_id -> data
    redis_store,       \* Redis keys "player:<id>" : player_id -> <<payload, expiry>>
    db_actions,        \* rows of the player_actions table
    tasks,             \* in-flight coroutines of the hybrid engine
    hist,              \* observation log of the hybrid engine (completed calls)
    max_memory_players, \* HybridAntiCheatEngine.max_memory_players
    legacy_actions,    \* AntiCheatEngine.player_actions[player] (deque)
    legacy_scores,     \* AntiCheatEngine.violation_scores[player]
    timescale_db,      \* tables player_actions_ts, violations_ts, player_summary
    player_cache,      \* TimescaleAntiCheatEngine.player_cache : player_id -> entry
    plugin_registry,   \* PluginManager.*_plugins, in registration order
    config_storage,    \* the profile files written by save_profile: path -> JSON
    inflight           \* universal analyze_action coroutines suspended at an await

uvars == <<profiles, player_actions, violation_scores, violation_log, result, reads>>
hvars == <<memory_players, redis_store, db_actions, tasks, hist, max_memory_players>>
lvars == <<legacy_actions, legacy_scores, timescale_db, player_cache>>
pvars == <<plugin_registry, config_storage, inflight>>
vars  == <<now, ticks, profiles, player_actions, violation_scores, violation_log,
           result, reads, memory_players, redis_store, db_actions, tasks, hist,
           max_memory_players,
           legacy_actions, legacy_scores, timescale_db, player_cache, plugin_registry,
           config_storage, inflight>>

(***************************************************************************)
(* Bounds of the model                                                     *)
(***************************************************************************)
MaxTicks == 1
MaxReads == 2
MaxWindow == 3
MaxBatch == 2
MaxRules == 1
MaxRuleBatch == 1

Games == {"g1"}
Players == {"p1", "p2"}
QuartilePlayers == {"p1", "p2", "p3"}
UPlayers == {"p1"}
GenreInputs == {"fps"}

(***************************************************************************)
(* Generic helpers                                                         *)
(***************************************************************************)
RECURSIVE SumSeq(_)
SumSeq(s) == IF s = <<>> THEN 0 ELSE Head(s) + SumSeq(Tail(s))

Last(s) == s[Len(s)]

Min2(a, b) == IF a <= b THEN a ELSE b

Max2(a, b) == IF a >= b THEN a ELSE b

(***************************************************************************)
(* Values.  A Python value is a record [kind, num]; kind is the Python     *)
(* type that isinstance() sees.                                            *)
(***************************************************************************)
IntV(n) == [kind |-> "int", num |-> n]

FloatV(n) == [kind |-> "float", num |-> n]

StrV == [kind |-> "str", num |-> 0]

\* isinstance(value, (int, float)); bool is a subclass of int
IsNumeric(v) == v.kind \in {"int", "float", "bool"}

\* isinstance(value, int)
IsInt(v) == v.kind \in {"int", "bool"}

(***************************************************************************)
(* game_profiles.py                                                        *)
(***************************************************************************)
NoRange == <<>>

ActionDefinition(vtype, vrange, required) ==
    [value_type |-> vtype, value_range |-> vrange, required_fields |-> required]

\* parameters is a Dict[str, Any]: it is kept as the function of its numeric
\* entries and the set str_parameters of the keys whose value is a string
DetectionRule(id, types, rtype, params, sev) ==
    [rule_id |-> id, action_types |-> types, rule_type |-> rtype,
     parameters |-> params, str_parameters |-> {}, severity |-> sev,
     enabled |-> TRUE]

NoParams == [k \in {} |-> 0]

\* GameProfileManager._setup_fps_defaults
FpsActions ==
    [n \in {"player_kill", "headshot", "move_position", "fire_weapon",
            "reload_weapon", "match_result", "accuracy_shot"} |->
        CASE n = "player_kill"   -> ActionDefinition("int", <<1, 100>>, {})
          [] n = "headshot"      -> ActionDefinition("int", <<1, 50>>, {})
          [] n = "move_position" -> ActionDefinition("float", NoRange, {})
          [] n = "fire_weapon"   -> ActionDefinition("int", <<1, 1000>>, {})
          [] n = "reload_weapon" -> ActionDefinition("int", <<1, 100>>, {})
          [] n = "match_result"  -> ActionDefinition("string", NoRange, {})
          [] n = "accuracy_shot" -> ActionDefinition("float", <<0, 1>>, {})]

FpsRules ==
    << DetectionRule("fps_aimbot", {"headshot", "accuracy_shot"}, "statistical",
                     [k \in {"accuracy_threshold", "headshot_ratio"} |->
                         IF k = "accuracy_threshold" THEN 950 ELSE 800], 5000),
       DetectionRule("fps_wallhack", {"player_kill"}, "pattern",
                     [k \in {"suspicious_angle_threshold"} |-> 160], 4500),
       DetectionRule("fps_speed_hack", {"move_position"}, "threshold",
                     [k \in {"max_speed"} |-> 1000], 4000) >>

AUTO_BAN_THRESHOLD == 8000

\* GameProfile(...) followed by GameProfileManager._apply_genre_defaults
\* (genres other than the seven listed there get no defaults; of the seven,
\* the defaults of fps are written out)
NewProfile(genre) ==
    [genre |-> genre,
     actions |-> IF genre = "fps" THEN FpsActions ELSE [n \in {} |-> 0],
     detection_rules |-> IF genre = "fps" THEN FpsRules ELSE <<>>,
     auto_ban_threshold |-> AUTO_BAN_THRESHOLD]

\* GameProfile.validate_action without its value-range check
validate_action_norange(profile, a) ==
    IF a.action_type \notin DOMAIN profile.actions THEN {"unknown_action_type"}
    ELSE LET def == profile.actions[a.action_type] IN
         (IF \/ def.value_type = "float" /\ ~IsNumeric(a.value)
             \/ def.value_type = "int" /\ ~IsInt(a.value)
             \/ def.value_type = "bool" /\ a.value.kind # "bool"
          THEN {"bad_value_type"} ELSE {})
         \cup
         (IF \E f \in def.required_fields : f \notin a.metadata
          THEN {"missing_required_field"} ELSE {})

\* GameProfile.validate_action raises: "min_val, max_val = value_range" (line
\* 119) is a ValueError for a range that has not two elements
validate_action_raises(profile, a) ==
    /\ a.action_type \in DOMAIN profile.actions
    /\ profile.actions[a.action_type].value_range # NoRange
    /\ IsNumeric(a.value)
    /\ Len(profile.actions[a.action_type].value_range) # 2

\* GameProfile.validate_action: the set of validation errors
validate_action(profile, a) ==
    IF a.action_type \notin DOMAIN profile.actions THEN {"unknown_action_type"}
    ELSE LET def == profile.actions[a.action_type] IN
         (IF \/ def.value_type = "float" /\ ~IsNumeric(a.value)
             \/ def.value_type = "int" /\ ~IsInt(a.value)
             \/ def.value_type = "bool" /\ a.value.kind # "bool"
          THEN {"bad_value_type"} ELSE {})
         \cup
         (IF /\ def.value_range # NoRange
             /\ IsNumeric(a.value)
             /\ ~(def.value_range[1] <= a.value.num /\ a.value.num <= def.value_range[2])
          THEN {"value_out_of_range"} ELSE {})
         \cup
         (IF \E f \in def.required_fields : f \notin a.metadata
          THEN {"missing_required_field"} ELSE {})

(***************************************************************************)
(* universal_anti_cheat.py : DynamicRuleEngine                             *)
(***************************************************************************)
Param(params, k, default) == IF k \in DOMAIN params THEN params[k] ELSE default

\* pattern_type is details["pattern_type"], "" when the details have none
UniversalViolation(vtype, rule_id, sev) ==
    [violation_type |-> vtype, rule_id |-> rule_id, severity |-> sev,
     pattern_type |-> ""]

\* float(action.value) if action.value and isinstance(action.value, (int, float)) else 0
NumericOrZero(v) == IF IsNumeric(v) THEN v.num ELSE 0

RECURSIVE SumValues(_)
SumValues(actions) ==
    IF actions = <<>> THEN 0
    ELSE NumericOrZero(Head(actions).value) + SumValues(Tail(actions))

\* DynamicRuleEngine._evaluate_rate_limit; t is time.time(); the result is the
\* list of zero or one violation
evaluate_rate_limit(rule, actions, t) ==
    IF actions = <<>> THEN <<>>
    ELSE LET window == Param(rule.parameters, "time_window", 60)
             cutoff_time == t - window
             relevant_actions ==
                 SelectSeq(actions, LAMBDA a : a.action_type \in rule.action_types
                                               /\ a.timestamp >= cutoff_time)
             max_count == Param(rule.parameters, "max_per_minute",
                                Param(rule.parameters, "max_count", 10))
             max_value == Param(rule.parameters, "max_value_per_minute",
                                Param(rule.parameters, "max_total_value", 1000))
         IN  IF Len(relevant_actions) > max_count
             THEN << UniversalViolation("rate_limit_exceeded", rule.rule_id, rule.severity) >>
             ELSE IF /\ \/ "max_value_per_minute" \in DOMAIN rule.parameters
                        \/ "max_total_value" \in DOMAIN rule.parameters
                     /\ SumValues(relevant_actions) > max_value
             THEN << UniversalViolation("rate_limit_exceeded", rule.rule_id, rule.severity) >>
             ELSE <<>>

\* DynamicRuleEngine._evaluate_threshold
evaluate_threshold(rule, actions) ==
    LET relevant_actions ==
            SelectSeq(actions, LAMBDA a : a.action_type \in rule.action_types)
    IN  IF actions = <<>> \/ relevant_actions = <<>> THEN <<>>
        ELSE LET latest_action == Last(relevant_actions) IN
             IF /\ "max_value" \in DOMAIN rule.parameters
                /\ IsNumeric(latest_action.value)
                /\ latest_action.value.num > rule.parameters["max_value"]
             THEN << UniversalViolation("threshold_exceeded", rule.rule_id, rule.severity) >>
             ELSE IF /\ "min_value" \in DOMAIN rule.parameters
                     /\ IsNumeric(latest_action.value)
                     /\ latest_action.value.num < rule.parameters["min_value"]
             THEN << UniversalViolation("threshold_exceeded", rule.rule_id, rule.severity) >>
             ELSE <<>>

\* DynamicRuleEngine.custom_rules as register_rule filled it: what the callback
\* registered under a rule_id does when it is called
custom_rules ==
    [id \in {"c_hit", "c_raise"} |-> IF id = "c_hit" THEN "violation" ELSE "raise"]

\* DynamicRuleEngine._evaluate_custom: an unregistered rule and a callback that
\* raises (caught at line 325) both give None
evaluate_custom(rule) ==
    IF rule.rule_id \notin DOMAIN custom_rules THEN <<>>
    ELSE IF custom_rules[rule.rule_id] = "violation"
    THEN << UniversalViolation("custom_rule", rule.rule_id, rule.severity) >>
    ELSE <<>>

\* the windows of pattern_length consecutive action types in recent_actions
Sequences(recent_actions, pattern_length) ==
    [i \in 1..(Len(recent_actions) - pattern_length + 1) |->
        [k \in 1..pattern_length |-> recent_actions[i + k - 1].action_type]]

\* max(sequence_counts.values()) if sequence_counts else 0
MaxRepetitions(sequences) ==
    IF sequences = <<>> THEN 0
    ELSE LET count(i) == Cardinality({ j \in 1..Len(sequences) :
                                          sequences[j] = sequences[i] })
         IN  CHOOSE c \in { count(i) : i \in 1..Len(sequences) } :
                \A i \in 1..Len(sequences) : count(i) <= c

\* the inter-arrival intervals of relevant_actions, in window order
Intervals(relevant_actions) ==
    [i \in 1..(Len(relevant_actions) - 1) |->
        relevant_actions[i + 1].timestamp - relevant_actions[i].timestamp]

SumSquares(s) == SumSeq([i \in 1..Len(s) |-> s[i] * s[i]])

\* np.var(intervals) < threshold, with the threshold in thousandths:
\* var = (n * sum(x^2) - sum(x)^2) / n^2
VarianceBelow(intervals, threshold) ==
    LET n == Len(intervals)
    IN  1000 * (n * SumSquares(intervals) - SumSeq(intervals) * SumSeq(intervals))
           < threshold * n * n

PatternViolation(rule, pattern_type) ==
    [UniversalViolation("suspicious_pattern", rule.rule_id, rule.severity)
        EXCEPT !.pattern_type = pattern_type]

\* the repetition check of _evaluate_pattern (lines 200-236)
sequence_repetition(rule, relevant_actions) ==
    /\ "repetition_threshold" \in DOMAIN rule.parameters
    /\ LET pattern_length == Param(rule.parameters, "pattern_length", 3)
           recent_actions == SubSeq(relevant_actions,
                                    Max2(1, Len(relevant_actions) - 19),
                                    Len(relevant_actions))
       IN  /\ Len(relevant_actions) >= pattern_length * 2
           /\ MaxRepetitions(Sequences(recent_actions, pattern_length))
                 >= rule.parameters["repetition_threshold"]

\* the timing check of _evaluate_pattern (lines 239-267)
perfect_timing(rule, relevant_actions) ==
    /\ "perfect_timing_threshold" \in DOMAIN rule.parameters
    /\ Len(relevant_actions) >= 5
    /\ VarianceBelow(Intervals(relevant_actions),
                     rule.parameters["perfect_timing_threshold"])

\* DynamicRuleEngine._evaluate_pattern
evaluate_pattern(rule, actions) ==
    LET relevant_actions ==
            SelectSeq(actions, LAMBDA a : a.action_type \in rule.action_types)
    IN  IF Len(actions) < 3 \/ Len(relevant_actions) < 3 THEN <<>>
        ELSE IF sequence_repetition(rule, relevant_actions)
        THEN << PatternViolation(rule, "sequence_repetition") >>
        ELSE IF perfect_timing(rule, relevant_actions)
        THEN << PatternViolation(rule, "perfect_timing") >>
        ELSE <<>>

\* len(relevant_actions) < 10 in _evaluate_statistical
STAT_MIN_SAMPLES == 10

\* the largest r with r * r <= x
ISqrt(x) == CHOOSE r \in 0..x : r * r <= x /\ (r + 1) * (r + 1) > x

\* n * (values[-1] - np.mean(values)) and n^2 * np.var(values): the z-score of
\* the latest value is ZDeviation / sqrt(ZSpread)
ZDeviation(values) == Len(values) * Last(values) - SumSeq(values)

ZSpread(values) == Len(values) * SumSquares(values) - SumSeq(values) * SumSeq(values)

\* std_val > 0 and abs((latest_value - mean_val) / std_val) > z_threshold, with
\* the threshold in thousandths, a multiple of 0.1
ZScoreAbove(values, z_threshold) ==
    /\ ZSpread(values) > 0
    /\ 100 * ZDeviation(values) * ZDeviation(values)
          > (z_threshold \div 100) * (z_threshold \div 100) * ZSpread(values)

\* the same test with the latest value left out of mean and deviation
ZScoreAbove_baseline(values, z_threshold) ==
    LET n == Len(values) - 1
        base == SubSeq(values, 1, n)
        dev == n * Last(values) - SumSeq(base)
    IN  /\ ZSpread(base) > 0
        /\ 100 * dev * dev
              > (z_threshold \div 100) * (z_threshold \div 100) * ZSpread(base)

\* DynamicRuleEngine._evaluate_statistical.  The severity is
\* min(rule.severity * (z_score / z_threshold), 5.0) with the quotient, which
\* exceeds 1 here, rounded down to a whole number.
evaluate_statistical(rule, actions) ==
    LET relevant_actions ==
            SelectSeq(actions, LAMBDA a : /\ a.action_type \in rule.action_types
                                          /\ IsNumeric(a.value))
        values == [i \in 1..Len(relevant_actions) |-> relevant_actions[i].value.num]
    IN  IF Len(relevant_actions) < STAT_MIN_SAMPLES THEN <<>>
        ELSE IF /\ "z_threshold" \in DOMAIN rule.parameters
                /\ ZScoreAbove(values, rule.parameters["z_threshold"])
        THEN LET zt == rule.parameters["z_threshold"] \div 100
                 ratio == ISqrt((100 * ZDeviation(values) * ZDeviation(values))
                                   \div (zt * zt * ZSpread(values)))
             IN  << UniversalViolation("statistical_anomaly", rule.rule_id,
                                       Min2(rule.severity * ratio, 5000)) >>
        ELSE <<>>

\* DynamicRuleEngine.evaluate_rule
evaluate_rule(rule, actions, t) ==
    CASE rule.rule_type = "rate_limit" -> evaluate_rate_limit(rule, actions, t)
      [] rule.rule_type = "threshold"  -> evaluate_threshold(rule, actions)
      [] rule.rule_type = "pattern"    -> evaluate_pattern(rule, actions)
      [] rule.rule_type = "statistical" -> evaluate_statistical(rule, actions)
      [] rule.rule_type = "custom"     -> evaluate_custom(rule)
      [] OTHER -> <<>>

\* evaluate_rule raises: a comparison or subtraction of a number with a
\* parameter that is a string is a TypeError (lines 85, 96 and 154, 171)
evaluate_rule_raises(rule, actions, t) ==
    CASE rule.rule_type = "rate_limit" ->
             /\ actions # <<>>
             /\ \/ "time_window" \in rule.str_parameters
                \/ "max_per_minute" \in rule.str_parameters
                \/ /\ "max_per_minute" \notin DOMAIN rule.parameters
                   /\ "max_count" \in rule.str_parameters
      [] rule.rule_type = "threshold" ->
             LET relevant_actions ==
                     SelectSeq(actions, LAMBDA a : a.action_type \in rule.action_types)
             IN  /\ relevant_actions # <<>>
                 /\ IsNumeric(Last(relevant_actions).value)
                 /\ \/ "max_value" \in rule.str_parameters
                    \/ /\ "min_value" \in rule.str_parameters
                       /\ evaluate_threshold(
                              [rule EXCEPT !.parameters =
                                  [k \in DOMAIN @ \ {"min_value"} |-> @[k]]],
                              actions) = <<>>
      [] OTHER -> FALSE

\* the callback of a custom rule raises (inside the try of _evaluate_custom)
evaluate_custom_raises(rule) ==
    /\ rule.rule_type = "custom"
    /\ rule.rule_id \in DOMAIN custom_rules
    /\ custom_rules[rule.rule_id] = "raise"

\* the rule_ids that logger.error names during one loop over the rules
\* (lines 326 and 403)
RaisedRules(rules, actions, t) ==
    { rules[i].rule_id : i \in { j \in 1..Len(rules) :
          /\ rules[j].enabled
          /\ \/ evaluate_rule_raises(rules[j], actions, t)
             \/ evaluate_custom_raises(rules[j]) } }

\* the loop of analyze_action without its try/except: the first rule that
\* raises ends the evaluation
RECURSIVE RuleViolations_abort(_, _, _)
RuleViolations_abort(rules, actions, t) ==
    IF rules = <<>> THEN <<>>
    ELSE IF Head(rules).enabled /\ evaluate_rule_raises(Head(rules), actions, t)
    THEN <<>>
    ELSE (IF Head(rules).enabled THEN evaluate_rule(Head(rules), actions, t) ELSE <<>>)
         \o RuleViolations_abort(Tail(rules), actions, t)

\* the loop "for rule in profile.detection_rules" of analyze_action: a rule
\* whose evaluation raises is logged and skipped (lines 398-403)
RECURSIVE RuleViolations(_, _, _)
RuleViolations(rules, actions, t) ==
    IF rules = <<>> THEN <<>>
    ELSE (IF Head(rules).enabled /\ ~evaluate_rule_raises(Head(rules), actions, t)
          THEN evaluate_rule(Head(rules), actions, t) ELSE <<>>)
         \o RuleViolations(Tail(rules), actions, t)

(***************************************************************************)
(* universal_anti_cheat.py : UniversalAntiCheatEngine                      *)
(***************************************************************************)
DEQUE_MAXLEN == 1000

ML_MIN_ACTIONS == 10

ML_THRESHOLD == 700

INVALID_SEVERITY == 2000

SCORE_CAP == 10000

HOUR == 3600

\* an append that leaves a full deque as it is
DequeAppend_keepold(dq, a) ==
    IF Len(dq) >= DEQUE_MAXLEN THEN dq ELSE Append(dq, a)

\* deque(maxlen=1000).append
DequeAppend(dq, a) ==
    IF Len(dq) >= DEQUE_MAXLEN THEN Append(Tail(dq), a) ELSE Append(dq, a)

RECURSIVE SumSeverity(_)
SumSeverity(vs) == IF vs = <<>> THEN 0 ELSE Head(vs).severity + SumSeverity(Tail(vs))

\* outcomes of ml_engine.analyze_player_ml: no prediction, a prediction (in
\* thousandths), or an exception
MLOutcomes == {"none", "raise", "p500", "p700", "p900"}

MLPrediction(o) == CASE o = "p500" -> 500 [] o = "p700" -> 700 [] o = "p900" -> 900 [] OTHER -> 0

\* lines 405-438 of analyze_action with "prediction >= 0.7"
MLViolations_atleast(recent_actions, o) ==
    IF Len(recent_actions) >= ML_MIN_ACTIONS /\ MLPrediction(o) >= ML_THRESHOLD
    THEN << UniversalViolation("ml_detection", "ml_ensemble", MLPrediction(o) * 5) >>
    ELSE <<>>

\* lines 405-438 of analyze_action
MLViolations(recent_actions, o) ==
    IF Len(recent_actions) >= ML_MIN_ACTIONS /\ MLPrediction(o) > ML_THRESHOLD
    THEN << UniversalViolation("ml_detection", "ml_ensemble", MLPrediction(o) * 5) >>
    ELSE <<>>

\* the validation step of analyze_action (lines 369-382)
ValidationViolations(profile, a) ==
    IF validate_action(profile, a) # {}
    THEN << UniversalViolation("invalid_action", "validation_error", INVALID_SEVERITY) >>
    ELSE <<>>

\* 0.9 ** (time_diff / 3600) applied to a score, for whole hours (a fraction of
\* an hour is dropped); a negative time_diff is a factor above 1
RECURSIVE DecayHours(_, _)
DecayHours(score, h) ==
    IF h = 0 THEN score
    ELSE IF h > 0 THEN DecayHours((score * 9) \div 10, h - 1)
    ELSE DecayHours((score * 10) \div 9, h + 1)

Decayed(score, time_diff) ==
    DecayHours(score, IF time_diff >= 0 THEN time_diff \div HOUR
                      ELSE 0 - ((0 - time_diff) \div HOUR))

\* UniversalAntiCheatEngine.get_player_risk_score: <<stored score, returned score>>
RiskRead(g, p) ==
    LET base_score == violation_scores[<<g, p>>]
        recent_actions == player_actions[<<g, p>>]
    IN  IF recent_actions # <<>>
        THEN LET decayed_score ==
                     Decayed(base_score, now - Last(recent_actions).timestamp)
             IN  << decayed_score, Min2(decayed_score, SCORE_CAP) >>
        ELSE << base_score, Min2(base_score, SCORE_CAP) >>

NoAction == [player_id |-> "", game_id |-> "", action_type |-> "", timestamp |-> 0,
             value |-> StrV, metadata |-> {}]

NoResult == [op |-> "none", game |-> "", player |-> "", action |-> NoAction,
             known |-> FALSE, defs |-> [n \in {} |-> 0], errors |-> {}, violations |-> <<>>,
             score_before |-> 0, score_after |-> 0, risk |-> 0, ban |-> FALSE,
             threshold |-> 0, severe |-> 0, prev |-> 0 - 1,
             received |-> NoAction, returned |-> <<>>, stages |-> <<>>,
             ml |-> "none", raised |-> FALSE, window_before |-> <<>>,
             window_after |-> <<>>, raised_rules |-> {}, time |-> 0,
             store |-> ""]

\* violations of severity >= 4.0 recorded for the player within the trailing hour
SevereRecent(log, t) == Len(SelectSeq(log, LAMBDA vt : vt >= t - HOUR))

RECURSIVE SevereTimes(_, _)
SevereTimes(vs, t) ==
    IF vs = <<>> THEN <<>>
    ELSE (IF Head(vs).severity >= 4000 THEN <<t>> ELSE <<>>) \o SevereTimes(Tail(vs), t)

(***************************************************************************)
(* Inputs of the universal engine                                          *)
(***************************************************************************)
\* definitions offered to add_action_definition
CandActions ==
    [n \in {"loot", "drop"} |->
        IF n = "loot" THEN ActionDefinition("float", <<0, 10>>, {"zone"})
        ELSE ActionDefinition("float", <<5>>, {})]

\* the definition with a well-formed value_range
RangedActions == {"loot"}

\* the definition whose value_range has one element: ActionDefinitionCreate
\* takes a List[float] of any length and add_action_definition stores it
MalformedActions == {"drop"}

\* rules offered to add_detection_rule
RateRule == DetectionRule("r_rate", {"headshot"}, "rate_limit",
                          [k \in {"max_per_minute"} |-> 1], 3000)

ThresholdRule == DetectionRule("r_thr", {"headshot"}, "threshold",
                               [k \in {"max_value"} |-> 10], 4000)

CandRules == {RateRule, ThresholdRule}

\* rules for the action type "loot": a threshold rule, a threshold rule whose
\* max_value is a string, and a custom rule whose callback raises
LootThresholdRule == DetectionRule("r_loot", {"loot"}, "threshold",
                                   [k \in {"max_value"} |-> 10], 4000)

BadThresholdRule ==
    [DetectionRule("r_bad", {"loot"}, "threshold", NoParams, 3000)
        EXCEPT !.str_parameters = {"max_value"}]

CustomRaiseRule == DetectionRule("c_raise", {"loot"}, "custom", NoParams, 2500)

\* the rules offered to add_detection_rule
RuleInputs == {LootThresholdRule, BadThresholdRule, CustomRaiseRule}

\* a genre that _apply_genre_defaults gives no actions and no rules
RuleGenres == {"sandbox"}

RuleActionInputs ==
    { <<"loot", IntV(5), {"zone"}, 0>>, <<"loot", IntV(60), {"zone"}, 0>> }

\* (action_type, value, metadata keys, timestamp - time.time()) of the actions
\* submitted on time: a valid one, one out of range, one of the wrong type, and
\* for the type added at run time one without and two with its required key
ActionInputs ==
    { <<"headshot", IntV(5), {}, 0>>,
      <<"headshot", IntV(60), {}, 0>>,
      <<"headshot", StrV, {}, 0>>,
      <<"loot", IntV(5), {}, 0>>,
      <<"loot", IntV(5), {"zone"}, 0>>,
      <<"loot", IntV(60), {"zone"}, 0>> }

TickSteps == {61}

\* the actions of the scoring scenarios: on time, from a client whose clock is
\* an hour ahead, or four hours late
ScoringInputs ==
    { <<"headshot", IntV(20), {}, 0>>,
      <<"headshot", IntV(20), {}, 3600>>,
      <<"headshot", IntV(20), {}, 0 - 4 * 3600>> }

ScoringRules == {ThresholdRule}

ScoringSteps == {4 * 3600}

UniversalPlayerAction(p, g, in, ts) ==
    [player_id |-> p, game_id |-> g, action_type |-> in[1], timestamp |-> ts,
     value |-> in[2], metadata |-> in[3]]

\* the game ids a client may name
AllGames == {"g1", "g2"}

Keys == AllGames \X UPlayers

\* GameProfileManager.get_profile that falls back to an empty profile
get_profile_default(g) ==
    IF g \in DOMAIN profiles THEN << profiles[g] >> ELSE << NewProfile("sandbox") >>

\* GameProfileManager.get_profile: the profile or None, as a list of zero or
\* one profile
get_profile(g) ==
    IF g \in DOMAIN profiles THEN << profiles[g] >> ELSE <<>>

(***************************************************************************)
(* game_profiles.py : the profile files.  A path is the directory below    *)
(* profiles_dir (<<>> is profiles_dir itself) and the file name without    *)
(* its ".json".                                                            *)
(***************************************************************************)
\* game_id.split("/") for the game ids of the model
PathParts(game_id) ==
    IF game_id = "../g2" THEN << "..", "g2" >> ELSE << game_id >>

\* self.profiles_dir / f"{game_id}.json"
ProfilePath(game_id) ==
    LET parts == PathParts(game_id)
    IN  [dir |-> SubSeq(parts, 1, Len(parts) - 1), base |-> parts[Len(parts)]]

\* Path.stem of "<base>.json": a name that is nothing but ".json" is a
\* dot-file without suffix, its stem is the whole name
Stem(path) == IF path.base = "" THEN ".json" ELSE path.base

\* list(a_set), in some order
RECURSIVE SetToList(_)
SetToList(S) ==
    IF S = {} THEN <<>>
    ELSE LET x == CHOOSE y \in S : TRUE IN << x >> \o SetToList(S \ {x})

\* set(a_list)
ListToSet(l) == { l[i] : i \in 1..Len(l) }

\* the "actions" entries of _serialize_profile: None becomes null, a tuple a
\* JSON array, a set a JSON array
serialize_action(def) ==
    [value_type |-> def.value_type,
     value_range |-> [null |-> def.value_range = NoRange, items |-> def.value_range],
     required_fields |-> SetToList(def.required_fields)]

\* the "actions" loop of _deserialize_profile:
\* tuple(value_range) if value_range else None, set(required_fields)
deserialize_action(data) ==
    ActionDefinition(data.value_type,
                     IF data.value_range.null \/ data.value_range.items = <<>>
                     THEN NoRange ELSE data.value_range.items,
                     ListToSet(data.required_fields))

\* the "detection_rules" entries of _serialize_profile
serialize_rule(rule) ==
    [rule_id |-> rule.rule_id, action_types |-> SetToList(rule.action_types),
     rule_type |-> rule.rule_type, parameters |-> rule.parameters,
     str_parameters |-> rule.str_parameters, severity |-> rule.severity,
     enabled |-> rule.enabled]

\* the "detection_rules" loop of _deserialize_profile
deserialize_rule(data) ==
    [DetectionRule(data.rule_id, ListToSet(data.action_types), data.rule_type,
                   data.parameters, data.severity)
        EXCEPT !.str_parameters = data.str_parameters, !.enabled = data.enabled]

\* GameProfileManager._serialize_profile
serialize_profile(profile) ==
    [genre |-> profile.genre,
     actions |-> [n \in DOMAIN profile.actions |-> serialize_action(profile.actions[n])],
     detection_rules |-> [i \in 1..Len(profile.detection_rules) |->
                             serialize_rule(profile.detection_rules[i])],
     auto_ban_threshold |-> profile.auto_ban_threshold]

\* GameProfileManager._deserialize_profile
deserialize_profile(data) ==
    [genre |-> data.genre,
     actions |-> [n \in DOMAIN data.actions |-> deserialize_action(data.actions[n])],
     detection_rules |-> [i \in 1..Len(data.detection_rules) |->
                             deserialize_rule(data.detection_rules[i])],
     auto_ban_threshold |-> data.auto_ban_threshold]

\* GameProfileManager.save_profile
save_profile(storage, registry, game_id) ==
    IF game_id \notin DOMAIN registry THEN storage
    ELSE LET file_path == ProfilePath(game_id) IN
         [f \in DOMAIN storage \cup {file_path} |->
             IF f = file_path THEN serialize_profile(registry[game_id]) ELSE storage[f]]

\* the game ids for which _load_all_profiles finds a file: the stems of
\* profiles_dir.glob("*.json") whose "<stem>.json" load_profile can open
LoadableGames(storage) ==
    { game_id \in { Stem(f) : f \in { x \in DOMAIN storage : x.dir = <<>> } } :
          ProfilePath(game_id) \in DOMAIN storage }

\* GameProfileManager._load_all_profiles -> load_profile
load_all_profiles(storage) ==
    [game_id \in LoadableGames(storage) |->
        deserialize_profile(storage[ProfilePath(game_id)])]

(***************************************************************************)
(* Operations of the universal engine                                      *)
(***************************************************************************)
\* a suspended analyze_action holds a reference to the GameProfile object it
\* fetched: when create_profile puts a new object under the game id, the
\* coroutine keeps the old object, whose state is frozen from then on
Detach(flights, g) ==
    [i \in 1..Len(flights) |->
        IF flights[i].action.game_id = g /\ ~flights[i].detached
        THEN [flights[i] EXCEPT !.detached = TRUE, !.object = << profiles[g] >>]
        ELSE flights[i]]

\* class GameGenre: the values of the enumeration
GameGenre ==
    {"mmorpg", "mobile_rpg", "fps", "moba", "battle_royale", "strategy", "puzzle",
     "idle", "card", "racing", "sports", "casino", "platform", "sandbox"}

\* str.lower() on the genre strings that are sent
Lower(s) ==
    CASE s = "FPS" -> "fps"
      [] s = "Chess" -> "chess"
      [] OTHER -> s

\* register_game: GameGenre(genre.lower()), and SANDBOX after the ValueError
GameGenreOf(genre) ==
    IF Lower(genre) \in GameGenre THEN Lower(genre) ELSE "sandbox"

\* the genres for which _apply_genre_defaults calls a _setup_*_defaults
\* method, and those whose method GameProfileManager defines
SetupCalled == {"mmorpg", "mobile_rpg", "fps", "moba", "idle", "card", "puzzle"}

SetupDefined == {"mmorpg", "mobile_rpg", "fps", "idle", "card", "puzzle"}

\* create_profile raises: the AttributeError of a missing method leaves
\* _apply_genre_defaults before self.profiles[game_id] = profile
create_profile_raises(game_genre) == game_genre \in SetupCalled \ SetupDefined

\* UniversalAntiCheatEngine.register_game -> GameProfileManager.create_profile,
\* which saves the profile
RegisterGame(g, genre) ==
    IF create_profile_raises(GameGenreOf(genre))
    THEN /\ result' = [NoResult EXCEPT !.op = "register", !.game = g, !.raised = TRUE]
         /\ UNCHANGED <<now, ticks, profiles, player_actions, violation_scores,
                        violation_log, reads, hvars, lvars, pvars>>
    ELSE /\ profiles' = [x \in DOMAIN profiles \cup {g} |->
                            IF x = g THEN NewProfile(GameGenreOf(genre)) ELSE profiles[x]]
         /\ config_storage' = save_profile(config_storage, profiles', g)
         /\ inflight' = Detach(inflight, g)
         /\ UNCHANGED <<now, ticks, player_actions, violation_scores, violation_log,
                        result, reads, hvars, lvars, plugin_registry>>

\* add_action_definition -> GameProfile.add_action, save_profile
AddAction(g, name) ==
    /\ g \in DOMAIN profiles
    /\ profiles' = [profiles EXCEPT ![g].actions =
                       [n \in DOMAIN @ \cup {name} |->
                           IF n = name THEN CandActions[name] ELSE @[n]]]
    /\ config_storage' = save_profile(config_storage, profiles', g)
    /\ UNCHANGED <<now, ticks, player_actions, violation_scores, violation_log,
                   result, reads, hvars, lvars, plugin_registry, inflight>>

\* add_detection_rule -> GameProfile.add_detection_rule, save_profile, for a
\* profile that has fewer than cap rules of its own
AddRuleUpTo(g, rule, cap) ==
    /\ g \in DOMAIN profiles
    /\ Len(profiles[g].detection_rules) < Len(FpsRules) + cap
    /\ profiles' = [profiles EXCEPT ![g].detection_rules = Append(@, rule)]
    /\ config_storage' = save_profile(config_storage, profiles', g)
    /\ UNCHANGED <<now, ticks, player_actions, violation_scores, violation_log,
                   result, reads, hvars, lvars, plugin_registry, inflight>>

AddRule(g, rule) == AddRuleUpTo(g, rule, MaxRules)

\* UniversalAntiCheatEngine.analyze_action
AnalyzeAction(g, p, in, ml, cap) ==
    LET a == UniversalPlayerAction(p, g, in, now + in[4]) IN
    /\ Len(player_actions[<<g, p>>]) < cap
    /\ now + in[4] >= 0
    /\ IF get_profile(g) = <<>>
       THEN /\ result' = [NoResult EXCEPT !.op = "analyze", !.game = g, !.player = p,
                                          !.action = a,
                                          !.window_before = player_actions[<<g, p>>],
                                          !.window_after = player_actions[<<g, p>>],
                                          !.score_before = violation_scores[<<g, p>>],
                                          !.score_after = violation_scores[<<g, p>>]]
            /\ UNCHANGED <<player_actions, violation_scores, violation_log>>
       ELSE IF validate_action_raises(get_profile(g)[1], a)
       THEN \* the ValueError leaves analyze_action at line 370
            /\ result' = [NoResult EXCEPT !.op = "analyze", !.game = g, !.player = p,
                                          !.action = a, !.known = TRUE, !.raised = TRUE,
                                          !.defs = get_profile(g)[1].actions,
                                          !.window_before = player_actions[<<g, p>>],
                                          !.window_after = player_actions[<<g, p>>],
                                          !.score_before = violation_scores[<<g, p>>],
                                          !.score_after = violation_scores[<<g, p>>]]
            /\ UNCHANGED <<player_actions, violation_scores, violation_log>>
       ELSE LET profile == get_profile(g)[1]
                recent_actions == DequeAppend(player_actions[<<g, p>>], a)
                violations == ValidationViolations(profile, a)
                              \o RuleViolations(profile.detection_rules, recent_actions, now)
                              \o MLViolations(recent_actions, ml)
                score == violation_scores[<<g, p>>] + SumSeverity(violations)
            IN  /\ player_actions' = [player_actions EXCEPT ![<<g, p>>] = recent_actions]
                /\ violation_scores' = [violation_scores EXCEPT ![<<g, p>>] = score]
                /\ violation_log' = [violation_log EXCEPT ![<<g, p>>] =
                                        @ \o SevereTimes(violations, now)]
                /\ result' = [NoResult EXCEPT !.op = "analyze", !.game = g, !.player = p,
                                              !.action = a, !.known = TRUE,
                                              !.defs = profile.actions,
                                              !.errors = validate_action(profile, a),
                                              !.violations = violations,
                                              !.returned = violations,
                                              !.raised_rules =
                                                  RaisedRules(profile.detection_rules,
                                                              recent_actions, now),
                                              !.time = now, !.ml = ml,
                                              !.window_before = player_actions[<<g, p>>],
                                              !.window_after = recent_actions,
                                              !.score_before = violation_scores[<<g, p>>],
                                              !.score_after = score]
    /\ UNCHANGED <<now, ticks, profiles, reads, hvars, lvars, pvars>>

\* UniversalAntiCheatEngine.get_player_risk_score; prev is the score returned
\* by the call before when that was a get_player_risk_score for the same player
GetPlayerRiskScore(g, p) ==
    LET r == RiskRead(g, p) IN
    /\ reads < MaxReads
    /\ reads' = reads + 1
    /\ violation_scores' = [violation_scores EXCEPT ![<<g, p>>] = r[1]]
    /\ result' = [NoResult EXCEPT !.op = "risk", !.game = g, !.player = p,
                                  !.score_before = violation_scores[<<g, p>>],
                                  !.score_after = r[1], !.risk = r[2],
                                  !.prev = IF result.op = "risk" /\ result.game = g
                                              /\ result.player = p
                                           THEN result.risk ELSE 0 - 1]
    /\ UNCHANGED <<now, ticks, profiles, player_actions, violation_log, hvars, lvars, pvars>>

\* UniversalAntiCheatEngine.should_ban_player
ShouldBanPlayer(g, p) ==
    /\ reads < MaxReads
    /\ reads' = reads + 1
    /\ IF g \notin DOMAIN profiles
       THEN /\ result' = [NoResult EXCEPT !.op = "should_ban", !.game = g, !.player = p,
                              !.severe = SevereRecent(violation_log[<<g, p>>], now)]
            /\ UNCHANGED violation_scores
       ELSE LET r == RiskRead(g, p) IN
            /\ violation_scores' = [violation_scores EXCEPT ![<<g, p>>] = r[1]]
            /\ result' = [NoResult EXCEPT !.op = "should_ban", !.game = g, !.player = p,
                              !.known = TRUE,
                              !.score_before = violation_scores[<<g, p>>],
                              !.score_after = r[1], !.risk = r[2],
                              !.threshold = profiles[g].auto_ban_threshold,
                              !.ban = (r[2] >= profiles[g].auto_ban_threshold),
                              !.severe = SevereRecent(violation_log[<<g, p>>], now)]
    /\ UNCHANGED <<now, ticks, profiles, player_actions, violation_log, hvars, lvars, pvars>>

\* the wall clock advances
Tick(d) ==
    /\ ticks < MaxTicks
    /\ now' = now + d
    /\ ticks' = ticks + 1
    /\ UNCHANGED <<uvars, hvars, lvars, pvars>>

(***************************************************************************)
(* api/universal_endpoints.py : submit_universal_action, with the plugins  *)
(* of plugins/plugin_system.py.  A plugin is any implementation of the     *)
(* plugin interfaces, so what it does is an input of the call.             *)
(***************************************************************************)
\* DataProcessorPlugin.process_action: returns the action as it is, returns it
\* with another value, or raises (caught: the action is passed on as it is)
ProcessorOutcomes == {"same", "rewrite", "raise"}

process_action_through_plugins(a, o) ==
    IF o = "rewrite" THEN [a EXCEPT !.value = IntV(5)] ELSE a

\* DetectionPlugin.detect_violations: nothing, one violation (custom_rule,
\* severity 4.5 as FPSDetectionPlugin reports it), or an exception (caught)
DetectionOutcomes == {"none", "violation", "raise"}

detect_violations_with_plugins(o) ==
    IF o = "violation"
    THEN << UniversalViolation("custom_rule", "fps_aimbot_detection", 4500) >>
    ELSE <<>>

\* get_player_risk_score on a given score and window: <<stored, returned>>
RiskReadOf(base_score, recent_actions) ==
    IF recent_actions # <<>>
    THEN LET decayed_score ==
                 Decayed(base_score, now - Last(recent_actions).timestamp)
         IN  << decayed_score, Min2(decayed_score, SCORE_CAP) >>
    ELSE << base_score, Min2(base_score, SCORE_CAP) >>

\* the order in which submit_universal_action reaches the stages of an action:
\* line 159 (received), 171 (plugin pre-processing), 174 -> analyze_action 370
\* (validation), 385 (window), 394-438 (rules, ML), 441 (score), 183-231
\* (database), 245 (response)
EndpointStages ==
    << "Received", "PreProcessed", "Validated", "WindowLoaded", "Evaluated",
       "Scored", "Persisted", "Completed" >>

\* POST /action
SubmitAction(g, p, in, pre, det, ml, cap) ==
    LET action == UniversalPlayerAction(p, g, in, now)
        a == process_action_through_plugins(action, pre)
    IN
    /\ Len(player_actions[<<g, p>>]) < cap
    /\ IF g \notin DOMAIN profiles
       THEN /\ result' = [NoResult EXCEPT
                              !.op = "submit", !.game = g, !.player = p, !.action = a,
                              !.received = action, !.stages = EndpointStages,
                              !.score_before = violation_scores[<<g, p>>],
                              !.score_after = violation_scores[<<g, p>>],
                              !.risk = RiskRead(g, p)[2],
                              !.window_before = player_actions[<<g, p>>],
                              !.window_after = player_actions[<<g, p>>]]
            /\ violation_scores' = [violation_scores EXCEPT ![<<g, p>>] = RiskRead(g, p)[1]]
            /\ UNCHANGED <<player_actions, violation_log>>
       ELSE IF validate_action_raises(profiles[g], a)
       THEN \* the ValueError of analyze_action leaves the handler at line 174
            /\ result' = [NoResult EXCEPT
                              !.op = "submit", !.game = g, !.player = p, !.action = a,
                              !.received = action, !.known = TRUE, !.raised = TRUE,
                              !.score_before = violation_scores[<<g, p>>],
                              !.score_after = violation_scores[<<g, p>>],
                              !.window_before = player_actions[<<g, p>>],
                              !.window_after = player_actions[<<g, p>>]]
            /\ UNCHANGED <<player_actions, violation_scores, violation_log>>
       ELSE LET profile == profiles[g]
                recent_actions == DequeAppend(player_actions[<<g, p>>], a)
                violations == ValidationViolations(profile, a)
                              \o RuleViolations(profile.detection_rules, recent_actions, now)
                              \o MLViolations(recent_actions, ml)
                score == violation_scores[<<g, p>>] + SumSeverity(violations)
                returned == violations \o detect_violations_with_plugins(det)
                r == RiskReadOf(score, recent_actions)
            IN  /\ player_actions' = [player_actions EXCEPT ![<<g, p>>] = recent_actions]
                /\ violation_scores' = [violation_scores EXCEPT ![<<g, p>>] = r[1]]
                /\ violation_log' = [violation_log EXCEPT ![<<g, p>>] =
                                        @ \o SevereTimes(returned, now)]
                /\ result' = [NoResult EXCEPT
                                  !.op = "submit", !.game = g, !.player = p, !.action = a,
                                  !.received = action, !.known = TRUE,
                                  !.defs = profile.actions,
                                  !.errors = validate_action(profile, a),
                                  !.violations = violations, !.returned = returned,
                                  !.stages = EndpointStages, !.ml = ml,
                                  !.score_before = violation_scores[<<g, p>>],
                                  !.score_after = r[1], !.risk = r[2],
                                  !.threshold = profile.auto_ban_threshold,
                                  !.ban = (r[2] >= profile.auto_ban_threshold),
                                  !.window_before = player_actions[<<g, p>>],
                                  !.window_after = recent_actions]
    /\ UNCHANGED <<now, ticks, profiles, reads, hvars, lvars, pvars>>

(***************************************************************************)
(* hybrid_anti_cheat.py : HybridAntiCheatEngine, data and pure helpers     *)
(***************************************************************************)
\* self.max_memory_players (10000 in the source), scaled to the model
MemoryCapacity == 1

REDIS_TTL == 3600

HYBRID_WINDOW == 100

RATE_SEVERITY == 2000

MINUTE == 60

\* self.redis is set: the engine was constructed with a Redis client
RedisConfigured == TRUE

\* self.rate_limits: max_per_minute per action type
rate_limits ==
    [t \in {"reward_collection", "resource_gather", "level_progress"} |->
        CASE t = "reward_collection" -> 10
          [] t = "resource_gather"   -> 30
          [] t = "level_progress"    -> 3]

\* _action_to_dict_from_object
ActionDict(a) == [action_type |-> a.action_type, timestamp |-> a.timestamp, value |-> a.value]

\* the dict kept per player (its 'violations' list and 'loaded_at' stamp are
\* never read by the engine and are left out, as is each action's metadata)
PlayerData(p, actions, risk, access) ==
    [player_id |-> p, actions |-> actions, risk_score |-> risk, last_access |-> access]

\* json.dumps(data): the text, as a sequence of tokens
NumTok(n) == [t |-> "num", s |-> "", n |-> n]

StrTok(x) == [t |-> "str", s |-> x, n |-> 0]

RECURSIVE DumpActions(_)
DumpActions(actions) ==
    IF actions = <<>> THEN <<>>
    ELSE << StrTok(Head(actions).action_type), NumTok(Head(actions).timestamp),
            NumTok(Head(actions).value) >> \o DumpActions(Tail(actions))

json_dumps(data) ==
    << StrTok(data.player_id), NumTok(data.risk_score), NumTok(data.last_access) >>
    \o DumpActions(data.actions)

\* json.loads(text)
RECURSIVE LoadActions(_)
LoadActions(toks) ==
    IF Len(toks) < 3 THEN <<>>
    ELSE << [action_type |-> toks[1].s, timestamp |-> toks[2].n, value |-> toks[3].n] >>
         \o LoadActions(SubSeq(toks, 4, Len(toks)))

json_loads(text) ==
    PlayerData(text[1].s, LoadActions(SubSeq(text, 4, Len(text))), text[2].n, text[3].n)

\* datetime.fromtimestamp(ts) as stored in a DateTime column (counted here in
\* thousandths of a second), and datetime.timestamp() of the stored value
fromtimestamp(ts) == ts * 1000

timestamp_of(dt) == dt \div 1000

\* the row that _store_action adds
DBPlayerAction(p, a) ==
    [player_id |-> p, action_type |-> a.action_type,
     timestamp |-> fromtimestamp(a.timestamp), value |-> a.value]

\* _action_to_dict
RowDict(row) ==
    [action_type |-> row.action_type, timestamp |-> timestamp_of(row.timestamp),
     value |-> row.value]

\* ORDER BY timestamp DESC of a list of rows (insertion sort; among rows of
\* equal timestamp the one stored later comes first)
RECURSIVE InsertDesc(_, _)
InsertDesc(sorted, row) ==
    IF sorted = <<>> THEN <<row>>
    ELSE IF row.timestamp >= Head(sorted).timestamp THEN <<row>> \o sorted
    ELSE <<Head(sorted)>> \o InsertDesc(Tail(sorted), row)

RECURSIVE OrderDesc(_)
OrderDesc(rows) ==
    IF rows = <<>> THEN <<>>
    ELSE InsertDesc(OrderDesc(SubSeq(rows, 1, Len(rows) - 1)), rows[Len(rows)])

RECURSIVE MapRowDict(_)
MapRowDict(rows) ==
    IF rows = <<>> THEN <<>> ELSE <<RowDict(Head(rows))>> \o MapRowDict(Tail(rows))

Prefix(s, n) == SubSeq(s, 1, Min2(n, Len(s)))

\* the data dict that _load_from_db builds: the player's rows of the last
\* hour, newest first, at most 100, and a risk score of 0.0
LoadFromDbData(p, rows, t) ==
    LET mine == SelectSeq(rows, LAMBDA r : r.player_id = p
                                           /\ r.timestamp >= fromtimestamp(t - HOUR))
    IN  PlayerData(p, MapRowDict(Prefix(OrderDesc(mine), HYBRID_WINDOW)), 0, t)

\* _check_rate_limits: the list of violations (severities)
check_rate_limits(a, data, t) ==
    IF a.action_type \notin DOMAIN rate_limits THEN <<>>
    ELSE LET recent_actions ==
                 SelectSeq(data.actions, LAMBDA x : x.action_type = a.action_type
                                                    /\ x.timestamp >= t - MINUTE)
         IN  IF Len(recent_actions) > rate_limits[a.action_type]
             THEN << RATE_SEVERITY >> ELSE <<>>

\* _update_player_data applied to the entry of the player
UpdatedData(data, a, violations, t) ==
    PlayerData(data.player_id, Prefix(<<ActionDict(a)>> \o data.actions, HYBRID_WINDOW),
               data.risk_score + SumSeq(violations), t)

\* self.memory_players: a dict, kept as the sequence of its values in
\* insertion order (each value carries its key in player_id)
MemoryKeys(mem) == { mem[i].player_id : i \in DOMAIN mem }

Get(mem, p) == mem[CHOOSE i \in DOMAIN mem : mem[i].player_id = p]

\* self.memory_players[p] = data
Put(mem, p, data) ==
    IF p \in MemoryKeys(mem)
    THEN [i \in DOMAIN mem |-> IF mem[i].player_id = p THEN data ELSE mem[i]]
    ELSE Append(mem, data)

\* del self.memory_players[p]
Del(mem, p) == SelectSeq(mem, LAMBDA d : d.player_id # p)

\* sorted(self.memory_players.items(), key=last_access): a stable sort
RECURSIVE InsertByAccess(_, _)
InsertByAccess(sorted, d) ==
    IF sorted = <<>> THEN <<d>>
    ELSE IF d.last_access < Head(sorted).last_access THEN <<d>> \o sorted
    ELSE <<Head(sorted)>> \o InsertByAccess(Tail(sorted), d)

RECURSIVE SortedPlayers(_)
SortedPlayers(mem) ==
    IF mem = <<>> THEN <<>>
    ELSE InsertByAccess(SortedPlayers(SubSeq(mem, 1, Len(mem) - 1)), mem[Len(mem)])

evict_count(n) == Max2(1, n \div 4)

\* old_players of cleanup_old_data
OldPlayers(mem, t) == SelectSeq(mem, LAMBDA d : t - d.last_access > HOUR)

\* redis.get at time t: the stored text until its time to live has passed
RedisLive(store, p, t) == p \in DOMAIN store /\ t < store[p].expires

RedisSet(store, p, text, t) ==
    [q \in DOMAIN store \cup {p} |->
        IF q = p THEN [text |-> text, expires |-> t + REDIS_TTL] ELSE store[q]]

(***************************************************************************)
(* hybrid_anti_cheat.py : the coroutines.  A coroutine runs without         *)
(* interruption between two awaits of the Redis client; tasks[x] is the     *)
(* position and the locals of the coroutine in slot x.                      *)
(***************************************************************************)
MaxInflight == 2

MaxCalls == 4

HybridInputs == { <<"level_progress", 1, 0>> }

HybridSteps == {3601}

RedisOutcomes == {"ok"}

DbOutcomes == {TRUE}

NoHAction == [action_type |-> "", timestamp |-> 0, value |-> 0]

NoData == PlayerData("", <<>>, 0, 0)

NoResp == [status |-> "none", text |-> <<>>]

IdleTask ==
    [kind |-> "idle", player_id |-> "", action |-> NoHAction, pc |-> "idle",
     resp |-> NoResp, data |-> NoData, src |-> "none", cur |-> "",
     payload |-> <<>>, setex |-> "none", pending |-> <<>>, seen |-> <<>>]

NoPromoted == [src |-> "none", data |-> NoData]

NoDemoted == [some |-> FALSE, actions |-> <<>>, risk_score |-> 0]

\* what the last finished call did, and the state each player had when it
\* last left memory after a successful write to Redis
NoHist ==
    [calls |-> 0, op |-> "none", player_id |-> "", action |-> NoHAction,
     violations |-> <<>>, window |-> <<>>, risk |-> 0, recent |-> 0,
     seen |-> <<>>, promoted |-> NoPromoted,
     demoted |-> [p \in Players \cup QuartilePlayers |-> NoDemoted]]

\* a loop variable of _evict_from_memory refers to a dict object: once the
\* dict leaves memory_players or is replaced there, the loop keeps the object
FreezeTask(tk, mem, R) ==
    IF tk.kind = "cleanup" THEN tk
    ELSE [tk EXCEPT !.pending =
            [i \in DOMAIN tk.pending |->
                LET e == tk.pending[i]
                IN  IF e.live /\ e.player_id \in R
                    THEN [e EXCEPT !.live = FALSE, !.data = Get(mem, e.player_id)]
                    ELSE e]]

RecentCount(actions, type, t) ==
    Len(SelectSeq(actions, LAMBDA x : x.action_type = type /\ x.timestamp >= t - MINUTE))

\* the rest of the call once the player's dict is in memory: for
\* analyze_action _store_action, _check_rate_limits, _analyze_behavior (which
\* returns no violation) and _update_player_data; for get_player_risk_score
\* the return of risk_score
Complete(tid, t, mem, h, dbok, R) ==
    LET p == t.player_id
        a == t.action
        violations == IF t.kind = "analyze"
                      THEN check_rate_limits(a, Get(mem, p), now) ELSE <<>>
        mem2 == IF t.kind = "analyze" /\ p \in MemoryKeys(mem)
                THEN Put(mem, p, UpdatedData(Get(mem, p), a, violations, now))
                ELSE mem
        known == t.kind \in {"analyze", "risk"}
    IN  /\ memory_players' = mem2
        /\ db_actions' = IF t.kind = "analyze" /\ dbok
                         THEN Append(db_actions, DBPlayerAction(p, a))
                         ELSE db_actions
        /\ hist' = [h EXCEPT !.op = t.kind, !.player_id = p, !.action = a,
                             !.violations = violations,
                             !.window = IF known THEN Get(mem2, p).actions ELSE <<>>,
                             !.risk = IF known THEN Get(mem2, p).risk_score ELSE 0,
                             !.recent = IF known
                                        THEN RecentCount(Get(mem2, p).actions,
                                                         a.action_type, now)
                                        ELSE 0,
                             !.seen = t.seen]
        /\ tasks' = [x \in DOMAIN tasks |->
                        IF x = tid THEN IdleTask
                        ELSE LET tk == FreezeTask(tasks[x], memory_players, R)
                             IN  IF t.kind = "analyze" /\ tk.kind = "analyze"
                                    /\ tk.player_id = p
                                 THEN [tk EXCEPT !.seen =
                                         Append(@, [action |-> a,
                                                    severity |-> SumSeq(violations)])]
                                 ELSE tk]

\* an exception leaves the coroutine (KeyError of del or of the dict lookup)
Fail(tid, t, mem, h, R) ==
    /\ memory_players' = mem
    /\ db_actions' = db_actions
    /\ hist' = [h EXCEPT !.op = "error", !.player_id = t.player_id,
                         !.action = t.action, !.violations = <<>>,
                         !.window = <<>>, !.risk = 0, !.recent = 0, !.seen = t.seen]
    /\ tasks' = [x \in DOMAIN tasks |->
                    IF x = tid THEN IdleTask
                    ELSE FreezeTask(tasks[x], memory_players, R)]

\* _promote_to_memory after the eviction: data['last_access'] = time.time();
\* self.memory_players[player_id] = data
FinishPromote(tid, t, mem, h, dbok, R) ==
    LET d == [t.data EXCEPT !.last_access = now]
        p == t.player_id
    IN  Complete(tid, t, Put(mem, p, d),
                 [h EXCEPT !.promoted = [src |-> t.src, data |-> d]], dbok,
                 IF p \in MemoryKeys(mem) THEN R \cup {p} ELSE R)

\* await self.redis.setex(key, self.redis_ttl, json.dumps(data)): the call is sent
BeginSetex(tid, t, mem, h, R, p, text, rest) ==
    /\ memory_players' = mem
    /\ db_actions' = db_actions
    /\ hist' = h
    /\ tasks' = [x \in DOMAIN tasks |->
                    IF x = tid
                    THEN [t EXCEPT !.pc = "setex_sent", !.cur = p, !.payload = text,
                                   !.setex = "none", !.pending = rest]
                    ELSE FreezeTask(tasks[x], memory_players, R)]

\* a promotion that never makes room
Promote_noevict(tid, t, h, dbok) ==
    FinishPromote(tid, t, memory_players, h, dbok, {})

\* _promote_to_memory, with _evict_from_memory up to its first await
Promote(tid, t, h, dbok) ==
    IF Len(memory_players) >= max_memory_players /\ memory_players # <<>>
    THEN LET sorted_players == SortedPlayers(memory_players)
             evl == Prefix(sorted_players, evict_count(Len(sorted_players)))
             gone == { evl[i].player_id : i \in DOMAIN evl }
         IN  IF RedisConfigured
             THEN BeginSetex(tid, t, memory_players, h, {}, evl[1].player_id,
                             json_dumps(evl[1]),
                             [i \in 1..(Len(evl) - 1) |->
                                 [player_id |-> evl[i + 1].player_id, live |-> TRUE,
                                  data |-> NoData]])
             ELSE FinishPromote(tid, t,
                                SelectSeq(memory_players,
                                          LAMBDA d : d.player_id \notin gone),
                                h, dbok, gone)
    ELSE FinishPromote(tid, t, memory_players, h, dbok, {})

\* _get_player_data up to its first await
GetPlayerData(tid, t, h, dbok) ==
    LET p == t.player_id
    IN  IF p \in MemoryKeys(memory_players)
        THEN Complete(tid, t,
                      Put(memory_players, p,
                          [Get(memory_players, p) EXCEPT !.last_access = now]),
                      h, dbok, {})
        ELSE IF RedisConfigured
        THEN /\ tasks' = [tasks EXCEPT ![tid] = [t EXCEPT !.pc = "get_sent"]]
             /\ hist' = h
             /\ UNCHANGED <<memory_players, db_actions>>
        ELSE Promote(tid, [t EXCEPT !.data = LoadFromDbData(p, db_actions, now),
                                    !.src = "db"], h, dbok)

FreeSlot(tid) ==
    /\ tasks[tid].kind = "idle"
    /\ \A x \in DOMAIN tasks : x < tid => tasks[x].kind # "idle"

\* a call of analyze_action(action, db) starts
StartAnalyze(tid, p, in, dbok, cap) ==
    /\ FreeSlot(tid)
    /\ hist.calls < cap
    /\ now + in[3] >= 0
    /\ GetPlayerData(tid,
                     [IdleTask EXCEPT !.kind = "analyze", !.player_id = p,
                                      !.action = [action_type |-> in[1],
                                                  timestamp |-> now + in[3],
                                                  value |-> in[2]]],
                     [hist EXCEPT !.calls = @ + 1, !.promoted = NoPromoted], dbok)
    /\ UNCHANGED <<now, ticks, uvars, lvars, pvars, max_memory_players, redis_store>>

\* a call of get_player_risk_score(player_id, db) starts
StartRisk(tid, p, cap) ==
    /\ FreeSlot(tid)
    /\ hist.calls < cap
    /\ GetPlayerData(tid, [IdleTask EXCEPT !.kind = "risk", !.player_id = p],
                     [hist EXCEPT !.calls = @ + 1, !.promoted = NoPromoted], TRUE)
    /\ UNCHANGED <<now, ticks, uvars, lvars, pvars, max_memory_players, redis_store>>

\* a call of cleanup_old_data() starts
StartCleanup(tid, cap) ==
    /\ FreeSlot(tid)
    /\ hist.calls < cap
    /\ LET old_players == OldPlayers(memory_players, now)
           gone == { old_players[i].player_id : i \in DOMAIN old_players }
           t == [IdleTask EXCEPT !.kind = "cleanup"]
           h == [hist EXCEPT !.calls = @ + 1, !.promoted = NoPromoted]
       IN  IF old_players = <<>>
           THEN Complete(tid, t, memory_players, h, TRUE, {})
           ELSE IF RedisConfigured
           THEN BeginSetex(tid, t, memory_players, h, {}, old_players[1].player_id,
                           json_dumps(old_players[1]),
                           [i \in 1..(Len(old_players) - 1) |->
                               [player_id |-> old_players[i + 1].player_id,
                                live |-> TRUE, data |-> NoData]])
           ELSE Complete(tid, t,
                         SelectSeq(memory_players, LAMBDA d : d.player_id \notin gone),
                         h, TRUE, gone)
    /\ UNCHANGED <<now, ticks, uvars, lvars, pvars, max_memory_players, redis_store>>

\* Redis executes the GET of a waiting coroutine, or the call fails
RedisServeGet(tid, outcome) ==
    /\ tasks[tid].pc = "get_sent"
    /\ LET p == tasks[tid].player_id
       IN  tasks' = [tasks EXCEPT
                ![tid].pc = "get_done",
                ![tid].resp =
                    IF outcome = "error" THEN [status |-> "error", text |-> <<>>]
                    ELSE IF RedisLive(redis_store, p, now)
                    THEN [status |-> "hit", text |-> redis_store[p].text]
                    ELSE [status |-> "miss", text |-> <<>>]]
    /\ UNCHANGED <<now, ticks, uvars, lvars, pvars, max_memory_players, memory_players, redis_store, db_actions, hist>>

\* _get_player_data resumes after redis.get: json.loads and promotion on a
\* hit, _load_from_db otherwise
ResumeGet(tid, dbok) ==
    /\ tasks[tid].pc = "get_done"
    /\ LET t0 == tasks[tid]
           t == IF t0.resp.status = "hit"
                THEN [t0 EXCEPT !.data = json_loads(t0.resp.text), !.src = "redis",
                                !.resp = NoResp]
                ELSE [t0 EXCEPT !.data = LoadFromDbData(t0.player_id, db_actions, now),
                                !.src = "db", !.resp = NoResp]
       IN  Promote(tid, t, [hist EXCEPT !.promoted = NoPromoted], dbok)
    /\ UNCHANGED <<now, ticks, uvars, lvars, pvars, max_memory_players, redis_store>>

\* Redis executes the SETEX of a waiting coroutine, or the call fails
RedisServeSetex(tid, outcome) ==
    /\ tasks[tid].pc = "setex_sent"
    /\ tasks' = [tasks EXCEPT ![tid].pc = "setex_done", ![tid].setex = outcome]
    /\ redis_store' = IF outcome = "ok"
                      THEN RedisSet(redis_store, tasks[tid].cur, tasks[tid].payload, now)
                      ELSE redis_store
    /\ UNCHANGED <<now, ticks, uvars, lvars, pvars, max_memory_players, memory_players, db_actions, hist>>

\* the loop of _evict_from_memory or of cleanup_old_data resumes after
\* redis.setex: del self.memory_players[player_id], then the next entry or
\* the rest of the call
ResumeSetex(tid, dbok) ==
    /\ tasks[tid].pc = "setex_done"
    /\ LET t == tasks[tid]
           h0 == [hist EXCEPT !.promoted = NoPromoted]
       IN  IF t.cur \notin MemoryKeys(memory_players)
           THEN \* KeyError of del: inside the try of _get_player_data when
                \* the data came from Redis (caught, _load_from_db follows),
                \* outside of it otherwise
                IF t.kind # "cleanup" /\ t.src = "redis"
                THEN Promote(tid, [t EXCEPT !.data = LoadFromDbData(t.player_id,
                                                                   db_actions, now),
                                            !.src = "db", !.cur = "",
                                            !.payload = <<>>, !.setex = "none",
                                            !.pending = <<>>],
                             h0, dbok)
                ELSE Fail(tid, t, memory_players, h0, {})
           ELSE LET mem == Del(memory_players, t.cur)
                    old == Get(memory_players, t.cur)
                    h == [h0 EXCEPT !.demoted[t.cur] =
                            IF t.setex = "ok"
                            THEN [some |-> TRUE, actions |-> old.actions,
                                  risk_score |-> old.risk_score]
                            ELSE NoDemoted]
                    R == {t.cur}
                IN  IF t.pending = <<>>
                    THEN IF t.kind = "cleanup"
                         THEN Complete(tid, t, mem, h, dbok, R)
                         ELSE FinishPromote(tid, t, mem, h, dbok, R)
                    ELSE LET e == Head(t.pending)
                         IN  IF t.kind = "cleanup"
                             THEN IF e.player_id \notin MemoryKeys(mem)
                                  THEN Fail(tid, t, mem, h, R)
                                  ELSE BeginSetex(tid, t, mem, h, R, e.player_id,
                                                  json_dumps(Get(mem, e.player_id)),
                                                  Tail(t.pending))
                             ELSE BeginSetex(tid, t, mem, h, R, e.player_id,
                                             json_dumps(IF e.live
                                                        THEN Get(mem, e.player_id)
                                                        ELSE e.data),
                                             Tail(t.pending))
    /\ UNCHANGED <<now, ticks, uvars, lvars, pvars, max_memory_players, redis_store>>

(***************************************************************************)
(* anti_cheat.py : AntiCheatEngine, the engine of the first API            *)
(***************************************************************************)
LEGACY_FREQUENCY_SEVERITY == 2000
LEGACY_VALUE_SEVERITY == 3000
LEGACY_MIN_ACTIONS == 10

\* self.rate_limits: <<max_per_minute, max_value_per_minute>> per action type
legacy_rate_limits ==
    [t \in {"reward_collection", "resource_gather", "level_progress", "purchase"} |->
        CASE t = "reward_collection" -> <<10, 1000>>
          [] t = "resource_gather"   -> <<30, 500>>
          [] t = "level_progress"    -> <<3, 100>>
          [] t = "purchase"          -> <<5, 10000>>]

PlayerAction(p, in, ts) ==
    [player_id |-> p, action_type |-> in[1], timestamp |-> ts, value |-> in[2]]

ViolationRecord(vtype, sev) == [violation_type |-> vtype, severity |-> sev]

RECURSIVE SumField(_)
SumField(actions) ==
    IF actions = <<>> THEN 0 ELSE Head(actions).value + SumField(Tail(actions))

\* AntiCheatEngine._check_rate_limits on the deque of the player
legacy_check_rate_limits(a, actions, t) ==
    IF a.action_type \notin DOMAIN legacy_rate_limits THEN <<>>
    ELSE LET limits == legacy_rate_limits[a.action_type]
             recent_actions ==
                 SelectSeq(actions, LAMBDA x : x.action_type = a.action_type
                                               /\ x.timestamp >= t - MINUTE)
         IN  (IF Len(recent_actions) > limits[1]
              THEN << ViolationRecord("rate_limit_exceeded", LEGACY_FREQUENCY_SEVERITY) >>
              ELSE <<>>)
             \o
             (IF SumField(recent_actions) > limits[2]
              THEN << ViolationRecord("rate_limit_exceeded", LEGACY_VALUE_SEVERITY) >>
              ELSE <<>>)

\* lines 116-146 of analyze_action: the ML engine is asked for every action
LegacyMLViolations(o) ==
    IF MLPrediction(o) > ML_THRESHOLD
    THEN << ViolationRecord("anomaly_detected", MLPrediction(o) * 5) >>
    ELSE <<>>

\* outcomes of redis.lpush in _store_action_redis
LegacyStoreOutcomes == {"ok", "error"}

LegacyMLOutcomes == {"none", "p900"}

\* AntiCheatEngine.analyze_action, for deques of fewer than ten actions, on
\* which _analyze_behavior, _detect_anomalies and _detect_bot_behavior return
\* nothing (lines 212, 275, 305), and within ten minutes of the construction
\* of the engine, when _check_memory_usage does nothing (line 395).
\* _store_action_redis has no try: what lpush raises leaves analyze_action
\* at line 98, after the append of line 94.
LegacyAnalyzeAction(p, in, store, ml, cap) ==
    LET a == PlayerAction(p, in, now)
        actions == DequeAppend(legacy_actions[p], a)
        violations == legacy_check_rate_limits(a, actions, now) \o LegacyMLViolations(ml)
    IN
    /\ Len(legacy_actions[p]) < cap
    /\ cap < LEGACY_MIN_ACTIONS
    /\ legacy_actions' = [legacy_actions EXCEPT ![p] = actions]
    /\ IF store = "error"
       THEN /\ UNCHANGED legacy_scores
            /\ result' = [NoResult EXCEPT
                              !.op = "legacy_analyze", !.player = p, !.store = store,
                              !.raised = TRUE, !.time = now,
                              !.window_before = legacy_actions[p],
                              !.window_after = actions,
                              !.score_before = legacy_scores[p],
                              !.score_after = legacy_scores[p]]
       ELSE /\ legacy_scores' = [legacy_scores EXCEPT ![p] = @ + SumSeverity(violations)]
            /\ result' = [NoResult EXCEPT
                              !.op = "legacy_analyze", !.player = p, !.store = store,
                              !.ml = ml, !.time = now,
                              !.violations = violations, !.returned = violations,
                              !.window_before = legacy_actions[p],
                              !.window_after = actions,
                              !.score_before = legacy_scores[p],
                              !.score_after = legacy_scores[p] + SumSeverity(violations)]
    /\ UNCHANGED <<now, ticks, profiles, player_actions, violation_scores,
                   violation_log, reads, hvars, pvars, timescale_db, player_cache>>

(***************************************************************************)
(* timescale_anti_cheat.py : TimescaleAntiCheatEngine                      *)
(***************************************************************************)
TS_FREQUENCY_SEVERITY == 2000
TS_VALUE_SEVERITY == 3000
\* the fewest rows on which _detect_bot_behavior_sql can report: more than
\* five occurrences of one pattern of three consecutive actions
TS_MIN_ROWS == 8

\* self.rate_limits: <<max_per_minute, max_value_per_minute>> per action type
timescale_rate_limits ==
    [t \in {"reward_collection", "resource_gather", "level_progress", "purchase",
            "combat", "trade"} |->
        CASE t = "reward_collection" -> <<10, 1000>>
          [] t = "resource_gather"   -> <<30, 500>>
          [] t = "level_progress"    -> <<3, 100>>
          [] t = "purchase"          -> <<5, 10000>>
          [] t = "combat"            -> <<60, 2000>>
          [] t = "trade"             -> <<20, 50000>>]

\* _check_rate_limits_sql on the rows of player_actions_ts
check_rate_limits_sql(a, rows, t) ==
    IF a.action_type \notin DOMAIN timescale_rate_limits THEN <<>>
    ELSE LET limits == timescale_rate_limits[a.action_type]
             mine == SelectSeq(rows, LAMBDA x : /\ x.player_id = a.player_id
                                                /\ x.action_type = a.action_type
                                                /\ x.timestamp >= t - MINUTE)
             action_count == Len(mine)
             total_value == SumField(mine)
         IN  (IF action_count > limits[1]
              THEN << ViolationRecord("rate_limit_exceeded",
                          TS_FREQUENCY_SEVERITY + (action_count - limits[1]) * 100) >>
              ELSE <<>>)
             \o
             (IF total_value > limits[2]
              THEN << ViolationRecord("rate_limit_exceeded",
                          TS_VALUE_SEVERITY
                          + ((total_value - limits[2]) * 1000) \div limits[2]) >>
              ELSE <<>>)

\* the rows that _store_violations_async inserts into violations_ts
ViolationRows(violations, p, t) ==
    [i \in DOMAIN violations |->
        [time |-> t, player_id |-> p,
         violation_type |-> violations[i].violation_type,
         severity |-> violations[i].severity]]

\* connection_pool.acquire(): a connection, or an exception when the database
\* cannot be reached
TimescaleOutcomes == {"ok", "unreachable"}

\* TimescaleAntiCheatEngine.analyze_action, for tables of fewer than eight
\* rows, on which _detect_anomalies_sql and _detect_bot_behavior_sql return
\* nothing (lines 177, 221, 259, 285).  The engine keeps no window of its own: the
\* player's state is the rows of the database.  The whole body is in one try,
\* whose except logs and falls through to "return violations" (lines 87-90).
TimescaleAnalyzeAction(p, in, db, cap) ==
    LET a == PlayerAction(p, in, now)
        rows == Append(timescale_db.actions, a)
        violations == check_rate_limits_sql(a, rows, now)
    IN
    /\ Len(timescale_db.actions) < cap
    /\ cap < TS_MIN_ROWS
    /\ IF db = "unreachable"
       THEN /\ UNCHANGED timescale_db
            /\ result' = [NoResult EXCEPT
                              !.op = "timescale_analyze", !.player = p, !.store = db,
                              !.time = now,
                              !.window_before = timescale_db.actions,
                              !.window_after = timescale_db.actions,
                              !.score_before = timescale_db.summary[p],
                              !.score_after = timescale_db.summary[p]]
       ELSE /\ timescale_db' =
                   [actions |-> rows,
                    violations |-> timescale_db.violations
                                   \o ViolationRows(violations, p, now),
                    summary |-> [timescale_db.summary EXCEPT
                                    ![p] = @ + SumSeverity(violations)]]
            /\ result' = [NoResult EXCEPT
                              !.op = "timescale_analyze", !.player = p, !.store = db,
                              !.time = now,
                              !.violations = violations, !.returned = violations,
                              !.window_before = timescale_db.actions,
                              !.window_after = rows,
                              !.score_before = timescale_db.summary[p],
                              !.score_after = timescale_db.summary[p]
                                              + SumSeverity(violations)]
    /\ UNCHANGED <<now, ticks, profiles, player_actions, violation_scores,
                   violation_log, reads, hvars, pvars, legacy_actions, legacy_scores,
                   player_cache>>

\* "time.time() - cache_entry['cached_at'] < 300" in get_player_risk_score
TS_CACHE_SECONDS == 300

\* self.max_cache_size
TS_MAX_CACHE == 10000

\* self.auto_ban_threshold
TS_BAN_THRESHOLD == 8000

\* "severity >= 4.0" and "critical_violations >= 3" in should_ban_player
TS_CRITICAL_SEVERITY == 4000

TS_CRITICAL_COUNT == 3

\* _update_cache: at max_cache_size the entry cached first leaves, then
\* data['cached_at'] = time.time() and the entry is stored
update_cache(cache, p, risk_score, t) ==
    LET kept == IF Cardinality(DOMAIN cache) >= TS_MAX_CACHE
                THEN DOMAIN cache \ { CHOOSE k \in DOMAIN cache :
                                         \A j \in DOMAIN cache :
                                            cache[k].cached_at <= cache[j].cached_at }
                ELSE DOMAIN cache
    IN  [k \in kept \cup {p} |->
            IF k = p THEN [risk_score |-> risk_score, cached_at |-> t] ELSE cache[k]]

\* the cache entry that get_player_risk_score returns without a query
CacheFresh(cache, p, t) ==
    p \in DOMAIN cache /\ t - cache[p].cached_at < TS_CACHE_SECONDS

\* what get_player_risk_score returns with a reachable database
timescale_risk_score(p) ==
    IF CacheFresh(player_cache, p, now) THEN player_cache[p].risk_score
    ELSE timescale_db.summary[p]

\* the cache after get_player_risk_score
CacheAfterRead(p) ==
    IF CacheFresh(player_cache, p, now) THEN player_cache
    ELSE update_cache(player_cache, p, timescale_db.summary[p], now)

\* TimescaleAntiCheatEngine.get_player_risk_score: an unreachable database
\* raises only when the cache does not answer
TimescaleGetRisk(p, db) ==
    /\ reads < MaxReads
    /\ reads' = reads + 1
    /\ IF db = "unreachable" /\ ~CacheFresh(player_cache, p, now)
       THEN /\ UNCHANGED player_cache
            /\ result' = [NoResult EXCEPT !.op = "timescale_risk", !.player = p,
                                          !.store = db, !.raised = TRUE, !.time = now]
       ELSE /\ player_cache' = CacheAfterRead(p)
            /\ result' = [NoResult EXCEPT !.op = "timescale_risk", !.player = p,
                                          !.store = db, !.time = now,
                                          !.risk = timescale_risk_score(p)]
    /\ UNCHANGED <<now, ticks, profiles, player_actions, violation_scores,
                   violation_log, hvars, pvars, legacy_actions, legacy_scores,
                   timescale_db>>

\* the count of should_ban_player: rows of violations_ts of the player with
\* severity >= 4.0 in the last hour
CriticalViolations(p, t) ==
    Len(SelectSeq(timescale_db.violations,
                  LAMBDA v : /\ v.player_id = p
                             /\ v.severity >= TS_CRITICAL_SEVERITY
                             /\ v.time >= t - HOUR))

\* TimescaleAntiCheatEngine.should_ban_player
TimescaleShouldBan(p, db) ==
    /\ reads < MaxReads
    /\ reads' = reads + 1
    /\ IF db = "unreachable"
          /\ (~CacheFresh(player_cache, p, now)
               \/ timescale_risk_score(p) < TS_BAN_THRESHOLD)
       THEN /\ UNCHANGED player_cache
            /\ result' = [NoResult EXCEPT !.op = "timescale_should_ban", !.player = p,
                                          !.store = db, !.raised = TRUE, !.time = now]
       ELSE /\ player_cache' = CacheAfterRead(p)
            /\ result' = [NoResult EXCEPT !.op = "timescale_should_ban", !.player = p,
                                          !.store = db, !.time = now,
                                          !.risk = timescale_risk_score(p),
                                          !.threshold = TS_BAN_THRESHOLD,
                                          !.severe = CriticalViolations(p, now),
                                          !.ban = \/ timescale_risk_score(p) >= TS_BAN_THRESHOLD
                                                  \/ CriticalViolations(p, now)
                                                        >= TS_CRITICAL_COUNT]
    /\ UNCHANGED <<now, ticks, profiles, player_actions, violation_scores,
                   violation_log, hvars, pvars, legacy_actions, legacy_scores,
                   timescale_db>>

(***************************************************************************)
(* Initial states and specifications                                       *)
(***************************************************************************)
(***************************************************************************)
(* plugins/plugin_system.py : PluginManager.  The manager keeps one dict   *)
(* per plugin category, in registration order; what a plugin's methods do  *)
(* is fixed by its class and is the field "behaviour" here.                *)
(***************************************************************************)
\* a plugin instance after load_plugin: BasePlugin.__init__ sets enabled
Plugin(name, kind, behaviour, game_types) ==
    [name |-> name, kind |-> kind, behaviour |-> behaviour,
     game_types |-> game_types, enabled |-> TRUE]

\* the plugin classes found in the plugins directory: data processors that
\* rewrite the value, tag the metadata and drop weak violations, or raise;
\* detection plugins for FPS games, for every game, or raising; notification
\* plugins that deliver or raise
PluginInputs ==
    { Plugin("clamp", "data_processor", "rewrite", {}),
      Plugin("tagger", "data_processor", "tag", {}),
      Plugin("broken_processor", "data_processor", "raise", {}),
      Plugin("fps_detection", "detection", "violation", {"fps", "battle_royale"}),
      Plugin("broken_detection", "detection", "raise", {"all"}),
      Plugin("discord", "notification", "send", {"all"}),
      Plugin("broken_notification", "notification", "raise", {"all"}) }

\* plugins loaded at a time
MaxPlugins == 3

PluginCategories == <<"detection", "data_processor", "notification">>

NoPlugins == [c \in {"detection", "data_processor", "notification"} |-> <<>>]

PluginNames(plugins) == { plugins[i].name : i \in 1..Len(plugins) }

\* dict assignment: a new key goes last, an existing key keeps its place
DictSet(plugins, plugin) ==
    IF plugin.name \in PluginNames(plugins)
    THEN [i \in 1..Len(plugins) |->
             IF plugins[i].name = plugin.name THEN plugin ELSE plugins[i]]
    ELSE Append(plugins, plugin)

\* the first category, in the order of _set_plugin_status, that holds the name
RECURSIVE FirstCategory(_, _, _)
FirstCategory(registry, categories, name) ==
    IF categories = <<>> THEN <<>>
    ELSE IF name \in PluginNames(registry[Head(categories)]) THEN << Head(categories) >>
    ELSE FirstCategory(registry, Tail(categories), name)

\* PluginManager._set_plugin_status
set_plugin_status(registry, name, enabled) ==
    LET found == FirstCategory(registry, PluginCategories, name) IN
    IF found = <<>> THEN registry
    ELSE [registry EXCEPT ![found[1]] =
             [i \in 1..Len(@) |->
                 IF @[i].name = name THEN [@[i] EXCEPT !.enabled = enabled] ELSE @[i]]]

\* DataProcessorPlugin.process_action of a plugin that returns
process_action(plugin, a) ==
    CASE plugin.behaviour = "rewrite" -> [a EXCEPT !.value = IntV(5)]
      [] plugin.behaviour = "tag"     -> [a EXCEPT !.metadata = @ \cup {"seen"}]
      [] OTHER                        -> a

\* DataProcessorPlugin.post_process_violations of a plugin that returns
post_process_violations(plugin, violations) ==
    IF plugin.behaviour = "tag"
    THEN SelectSeq(violations, LAMBDA v : v.severity >= 3000)
    ELSE violations

\* DetectionPlugin.detect_violations of a plugin that returns
detect_violations(plugin) ==
    IF plugin.behaviour = "violation"
    THEN << UniversalViolation("custom_rule", "fps_aimbot_detection", 4500) >>
    ELSE <<>>

plugin_raises(plugin) == plugin.behaviour = "raise"

\* an applicability test that lets every plugin through
is_plugin_applicable_any(plugin, profile) == TRUE

\* PluginManager._is_plugin_applicable
is_plugin_applicable(plugin, profile) ==
    \/ plugin.game_types = {}
    \/ profile.genre \in plugin.game_types
    \/ "all" \in plugin.game_types

\* the loop of process_action_through_plugins that gives up at the first
\* plugin that raises
RECURSIVE plugins_process_action_abort(_, _)
plugins_process_action_abort(plugins, a) ==
    IF plugins = <<>> THEN [action |-> a, invoked |-> <<>>]
    ELSE LET plugin == Head(plugins) IN
         IF ~plugin.enabled THEN plugins_process_action_abort(Tail(plugins), a)
         ELSE IF plugin_raises(plugin) THEN [action |-> a, invoked |-> << plugin.name >>]
         ELSE LET rest == plugins_process_action_abort(Tail(plugins),
                                                       process_action(plugin, a))
              IN  [rest EXCEPT !.invoked = << plugin.name >> \o @]

\* PluginManager.process_action_through_plugins over the registered data
\* processors: the processed action and the plugins invoked, in order
RECURSIVE plugins_process_action(_, _)
plugins_process_action(plugins, a) ==
    IF plugins = <<>> THEN [action |-> a, invoked |-> <<>>]
    ELSE LET plugin == Head(plugins) IN
         IF ~plugin.enabled THEN plugins_process_action(Tail(plugins), a)
         ELSE LET processed_action ==
                      IF plugin_raises(plugin) THEN a ELSE process_action(plugin, a)
                  rest == plugins_process_action(Tail(plugins), processed_action)
              IN  [rest EXCEPT !.invoked = << plugin.name >> \o @]

\* the first loop of detect_violations_with_plugins
RECURSIVE plugins_detect(_, _)
plugins_detect(plugins, profile) ==
    IF plugins = <<>> THEN [violations |-> <<>>, invoked |-> <<>>]
    ELSE LET plugin == Head(plugins)
             rest == plugins_detect(Tail(plugins), profile)
         IN  IF plugin.enabled /\ is_plugin_applicable(plugin, profile)
             THEN [violations |-> (IF plugin_raises(plugin) THEN <<>>
                                   ELSE detect_violations(plugin)) \o rest.violations,
                   invoked |-> << plugin.name >> \o rest.invoked]
             ELSE rest

\* the second loop of detect_violations_with_plugins
RECURSIVE plugins_post_process(_, _)
plugins_post_process(plugins, all_violations) ==
    IF plugins = <<>> THEN [violations |-> all_violations, invoked |-> <<>>]
    ELSE LET plugin == Head(plugins) IN
         IF ~plugin.enabled THEN plugins_post_process(Tail(plugins), all_violations)
         ELSE LET processed ==
                      IF plugin_raises(plugin) THEN all_violations
                      ELSE post_process_violations(plugin, all_violations)
                  rest == plugins_post_process(Tail(plugins), processed)
              IN  [rest EXCEPT !.invoked = << plugin.name >> \o @]

\* PluginManager.detect_violations_with_plugins over the registry
plugins_detect_violations(registry, profile) ==
    LET detected == plugins_detect(registry["detection"], profile)
        post == plugins_post_process(registry["data_processor"], detected.violations)
    IN  [violations |-> post.violations, invoked |-> detected.invoked \o post.invoked]

\* PluginManager.send_notifications: the plugins that delivered the
\* notification and the plugins invoked
RECURSIVE plugins_send_notifications(_)
plugins_send_notifications(plugins) ==
    IF plugins = <<>> THEN [delivered |-> <<>>, invoked |-> <<>>]
    ELSE LET plugin == Head(plugins)
             rest == plugins_send_notifications(Tail(plugins))
         IN  IF plugin.enabled
             THEN [delivered |-> (IF plugin_raises(plugin) THEN <<>>
                                  ELSE << plugin.name >>) \o rest.delivered,
                   invoked |-> << plugin.name >> \o rest.invoked]
             ELSE rest

\* the action and the profiles handed to the plugin pipeline
PluginAction == UniversalPlayerAction("p1", "g1", <<"headshot", IntV(60), {}, 0>>, 0)

PluginGenres == {"fps", "sandbox"}

\* PluginManager.load_plugin -> _register_plugin
LoadPlugin(plugin) ==
    /\ plugin.name \notin PluginNames(plugin_registry[plugin.kind])
    /\ Len(plugin_registry["detection"]) + Len(plugin_registry["data_processor"])
          + Len(plugin_registry["notification"]) < MaxPlugins
    /\ plugin_registry' = [plugin_registry EXCEPT ![plugin.kind] = DictSet(@, plugin)]
    /\ UNCHANGED <<now, ticks, uvars, hvars, lvars, config_storage, inflight>>

\* PluginManager.enable_plugin / disable_plugin of a registered plugin
SetPluginStatus(name, enabled) ==
    /\ FirstCategory(plugin_registry, PluginCategories, name) # <<>>
    /\ plugin_registry' = set_plugin_status(plugin_registry, name, enabled)
    /\ plugin_registry' # plugin_registry
    /\ UNCHANGED <<now, ticks, uvars, hvars, lvars, config_storage, inflight>>

\* a call of process_action_through_plugins
ProcessThroughPlugins ==
    LET out == plugins_process_action(plugin_registry["data_processor"], PluginAction)
    IN  /\ result' = [NoResult EXCEPT !.op = "process", !.received = PluginAction,
                                      !.action = out.action, !.stages = out.invoked]
        /\ UNCHANGED <<now, ticks, profiles, player_actions, violation_scores,
                       violation_log, reads, hvars, lvars, pvars>>

\* a call of detect_violations_with_plugins for a profile of the genre
DetectWithPlugins(genre) ==
    LET out == plugins_detect_violations(plugin_registry, NewProfile(genre))
    IN  /\ result' = [NoResult EXCEPT !.op = "detect", !.game = genre,
                                      !.returned = out.violations,
                                      !.stages = out.invoked]
        /\ UNCHANGED <<now, ticks, profiles, player_actions, violation_scores,
                       violation_log, reads, hvars, lvars, pvars>>

\* a call of send_notifications
SendNotifications ==
    LET out == plugins_send_notifications(plugin_registry["notification"])
    IN  /\ result' = [NoResult EXCEPT !.op = "notify", !.returned = out.delivered,
                                      !.stages = out.invoked]
        /\ UNCHANGED <<now, ticks, profiles, player_actions, violation_scores,
                       violation_log, reads, hvars, lvars, pvars>>

(***************************************************************************)
(* analyze_action of an engine built with a Redis client: the coroutine    *)
(* suspends at "await self._store_action_redis(action)" (line 389), after  *)
(* the validation and the append, and other handlers run meanwhile.        *)
(***************************************************************************)
\* analyze_action up to the await of line 389
BeginAnalyze(g, p, in, cap) ==
    LET a == UniversalPlayerAction(p, g, in, now + in[4]) IN
    IF get_profile(g) = <<>> \/ validate_action_raises(get_profile(g)[1], a)
    THEN AnalyzeAction(g, p, in, "none", cap)
    ELSE LET profile == get_profile(g)[1] IN
         /\ Len(player_actions[<<g, p>>]) < cap
         /\ Len(inflight) < MaxInflight
         /\ now + in[4] >= 0
         /\ player_actions' = [player_actions EXCEPT ![<<g, p>>] = DequeAppend(@, a)]
         /\ inflight' = Append(inflight,
                               [action |-> a,
                                violations |-> ValidationViolations(profile, a),
                                validated |-> profile,
                                detached |-> FALSE, object |-> <<>>,
                                score_before |-> violation_scores[<<g, p>>]])
         /\ UNCHANGED <<now, ticks, profiles, violation_scores, violation_log,
                        result, reads, hvars, lvars, plugin_registry, config_storage>>

\* the GameProfile object a suspended analyze_action refers to, as it is now
ProfileObject(flight) ==
    IF flight.detached THEN flight.object[1] ELSE profiles[flight.action.game_id]

\* analyze_action from line 392 on, once Redis has answered: the rule loop, the
\* ML block (the window is shorter than 10) and the score
FinishAnalyze(i) ==
    /\ i \in 1..Len(inflight)
    /\ LET flight == inflight[i]
           a == flight.action
           k == <<a.game_id, a.player_id>>
           profile == ProfileObject(flight)
           recent_actions == player_actions[k]
           violations == flight.violations
                         \o RuleViolations(profile.detection_rules, recent_actions, now)
                         \o MLViolations(recent_actions, "none")
           score == violation_scores[k] + SumSeverity(violations)
       IN  /\ violation_scores' = [violation_scores EXCEPT ![k] = score]
           /\ violation_log' = [violation_log EXCEPT ![k] = @ \o SevereTimes(violations, now)]
           /\ result' = [NoResult EXCEPT !.op = "analyze", !.game = a.game_id,
                                         !.player = a.player_id, !.action = a,
                                         !.known = TRUE, !.defs = profile.actions,
                                         !.violations = violations,
                                         !.returned = violations, !.time = now,
                                         !.window_after = recent_actions,
                                         !.score_before = flight.score_before,
                                         !.score_after = score]
           /\ inflight' = [j \in 1..(Len(inflight) - 1) |->
                              IF j < i THEN inflight[j] ELSE inflight[j + 1]]
    /\ UNCHANGED <<now, ticks, profiles, player_actions, reads, hvars, lvars,
                   plugin_registry, config_storage>>

\* the actions analysed while rules are being added
InflightInputs == { <<"headshot", IntV(60), {}, 0>>, <<"loot", IntV(60), {"zone"}, 0>> }

\* pattern rules offered to add_detection_rule: the timing check alone, and
\* the timing check together with the repetition check
PerfectTimingRule ==
    DetectionRule("r_timing", {"headshot"}, "pattern",
                  [k \in {"perfect_timing_threshold"} |-> 100], 3500)

BothPatternRule ==
    DetectionRule("r_pattern", {"headshot"}, "pattern",
                  [k \in {"repetition_threshold", "pattern_length",
                          "perfect_timing_threshold"} |->
                      CASE k = "repetition_threshold" -> 3
                        [] k = "pattern_length" -> 2
                        [] OTHER -> 100], 3500)

PatternRules == {PerfectTimingRule, BothPatternRule}

\* headshots stamped 0, 2, 4, 6 and 8 seconds after the call time
PatternInputs ==
    { <<"headshot", IntV(5), {}, 0>>, <<"headshot", IntV(5), {}, 2>>,
      <<"headshot", IntV(5), {}, 4>>, <<"headshot", IntV(5), {}, 6>>,
      <<"headshot", IntV(5), {}, 8>> }

\* actions analysed per player in the pattern scenarios
PatternBatch == 5

\* a statistical rule offered to add_detection_rule
ZScoreRule ==
    DetectionRule("r_zscore", {"move_position"}, "statistical",
                  [k \in {"z_threshold"} |-> 3000], 5000)

\* positions 1 and 2 and an extreme position 100
StatInputs ==
    { <<"move_position", IntV(1), {}, 0>>, <<"move_position", IntV(2), {}, 0>>,
      <<"move_position", IntV(100), {}, 0>> }

\* actions analysed per player in the statistical scenarios
StatBatch == 10

\* a new process: UniversalAntiCheatEngine() builds a GameProfileManager, whose
\* constructor loads the profile files; windows and scores start empty, no
\* plugin is loaded and no coroutine is left
Restart ==
    /\ profiles' = load_all_profiles(config_storage)
    /\ player_actions' = [k \in Keys |-> <<>>]
    /\ violation_scores' = [k \in Keys |-> 0]
    /\ plugin_registry' = NoPlugins
    /\ inflight' = <<>>
    /\ UNCHANGED <<now, ticks, violation_log, result, reads, hvars, lvars,
                   config_storage>>

\* the game ids sent to POST /games/register: GameRegistration.game_id is any
\* string
PersistGames == {"g1", "", "../g2"}

InitClock == now = 0 /\ ticks = 0

InitUniversalVars ==
    /\ profiles = [g \in {} |-> 0]
    /\ player_actions = [k \in Keys |-> <<>>]
    /\ violation_scores = [k \in Keys |-> 0]
    /\ violation_log = [k \in Keys |-> <<>>]
    /\ reads = 0
    /\ result = NoResult

InitHybridVars ==
    /\ memory_players = <<>>
    /\ redis_store = [p \in {} |-> 0]
    /\ db_actions = <<>>
    /\ tasks = [x \in 1..MaxInflight |-> IdleTask]
    /\ hist = NoHist
    /\ max_memory_players = MemoryCapacity

InitLegacyVars ==
    /\ legacy_actions = [p \in UPlayers |-> <<>>]
    /\ legacy_scores = [p \in UPlayers |-> 0]
    /\ timescale_db = [actions |-> <<>>, violations |-> <<>>,
                       summary |-> [p \in UPlayers |-> 0]]
    /\ player_cache = [p \in {} |-> 0]

\* no plugin loaded, no profile file written, no analysis in flight
InitPluginVars ==
    /\ plugin_registry = NoPlugins
    /\ config_storage = [f \in {} |-> 0]
    /\ inflight = <<>>

InitUniversal ==
    InitClock /\ InitUniversalVars /\ InitHybridVars /\ InitLegacyVars /\ InitPluginVars

InitHybrid ==
    InitClock /\ InitUniversalVars /\ InitHybridVars /\ InitLegacyVars /\ InitPluginVars

NextUniversal ==
    \/ \E g \in Games, genre \in GenreInputs : RegisterGame(g, genre)
    \/ \E g \in Games, n \in RangedActions : AddAction(g, n)
    \/ \E g \in Games, r \in CandRules : AddRule(g, r)
    \/ \E g \in Games, p \in UPlayers, in \in ActionInputs :
          \E ml \in (IF Len(player_actions[<<g, p>>]) + 1 >= ML_MIN_ACTIONS
                     THEN MLOutcomes ELSE {"none"}) :
             AnalyzeAction(g, p, in, ml, MaxBatch)

SpecUniversal == InitUniversal /\ [][NextUniversal]_vars

NextScoring ==
    \/ \E g \in Games, genre \in GenreInputs : RegisterGame(g, genre)
    \/ \E g \in Games, r \in ScoringRules : AddRule(g, r)
    \/ \E g \in Games, p \in UPlayers, in \in ScoringInputs :
          \E ml \in (IF Len(player_actions[<<g, p>>]) + 1 >= ML_MIN_ACTIONS
                     THEN MLOutcomes ELSE {"none"}) :
             AnalyzeAction(g, p, in, ml, MaxWindow)
    \/ \E g \in Games, p \in UPlayers : GetPlayerRiskScore(g, p)
    \/ \E g \in Games, p \in UPlayers : ShouldBanPlayer(g, p)
    \/ \E d \in ScoringSteps : Tick(d)

SpecScoring == InitUniversal /\ [][NextScoring]_vars

\* the actions sent to POST /action: a valid one and one out of range
EndpointInputs ==
    { <<"headshot", IntV(5), {}, 0>>, <<"headshot", IntV(60), {}, 0>> }

NextEndpoint ==
    \/ \E g \in Games, genre \in GenreInputs : RegisterGame(g, genre)
    \/ \E g \in Games, r \in ScoringRules : AddRule(g, r)
    \/ \E g \in Games, p \in UPlayers, in \in EndpointInputs,
          pre \in ProcessorOutcomes, det \in DetectionOutcomes :
          \E ml \in (IF Len(player_actions[<<g, p>>]) + 1 >= ML_MIN_ACTIONS
                     THEN MLOutcomes ELSE {"none"}) :
             SubmitAction(g, p, in, pre, det, ml, MaxBatch)

SpecEndpoint == InitUniversal /\ [][NextEndpoint]_vars

NextRules ==
    \/ \E g \in Games, genre \in RuleGenres : RegisterGame(g, genre)
    \/ \E g \in Games : AddAction(g, "loot")
    \/ \E g \in Games, r \in RuleInputs : AddRule(g, r)
    \/ \E g \in Games, p \in UPlayers, in \in RuleActionInputs :
          AnalyzeAction(g, p, in, "none", MaxRuleBatch)

SpecRules == InitUniversal /\ [][NextRules]_vars

\* the actions sent while profiles are registered and extended: one above the
\* threshold of ThresholdRule and one of the type with the one-element range
RegistryInputs ==
    { <<"headshot", IntV(60), {}, 0>>, <<"drop", IntV(5), {}, 0>> }

NextRegistry ==
    \/ \E g \in AllGames, genre \in GenreInputs : RegisterGame(g, genre)
    \/ \E g \in Games, n \in MalformedActions : AddAction(g, n)
    \/ \E g \in Games, r \in ScoringRules : AddRule(g, r)
    \/ \E g \in AllGames, p \in UPlayers, in \in RegistryInputs :
          AnalyzeAction(g, p, in, "none", MaxRuleBatch)

SpecRegistry == InitUniversal /\ [][NextRegistry]_vars

\* genre strings sent to register_game: genres with and without defaults, a
\* genre in capitals and a string outside the enumeration
RegisterGenres == {"fps", "FPS", "moba", "racing", "sandbox", "Chess"}

NextGenres ==
    \/ \E g \in AllGames, genre \in RegisterGenres : RegisterGame(g, genre)
    \/ \E g \in AllGames, p \in UPlayers, in \in RegistryInputs :
          AnalyzeAction(g, p, in, "none", MaxRuleBatch)

SpecGenres == InitUniversal /\ [][NextGenres]_vars

\* one action, out of the range of its definition and above the threshold of
\* ThresholdRule, sent until the window is long enough for the ML engine
MLInputs == { <<"headshot", IntV(60), {}, 0>> }

NextML ==
    \/ \E g \in Games, genre \in GenreInputs : RegisterGame(g, genre)
    \/ \E g \in Games, r \in ScoringRules : AddRule(g, r)
    \/ \E g \in Games, p \in UPlayers, in \in MLInputs :
          \E ml \in (IF Len(player_actions[<<g, p>>]) + 1 >= ML_MIN_ACTIONS
                     THEN MLOutcomes ELSE {"none"}) :
             AnalyzeAction(g, p, in, ml, ML_MIN_ACTIONS + MaxBatch - 1)

SpecML == InitUniversal /\ [][NextML]_vars

\* (action_type, value) of the actions sent to the first API: one within and
\* one above max_value_per_minute
LegacyInputs == { <<"level_progress", 1>>, <<"level_progress", 200>> }

NextLegacy ==
    \/ \E p \in UPlayers, in \in LegacyInputs, store \in LegacyStoreOutcomes,
          ml \in LegacyMLOutcomes :
          LegacyAnalyzeAction(p, in, store, ml, MaxWindow)
    \/ \E d \in TickSteps : Tick(d)

SpecLegacy == InitUniversal /\ [][NextLegacy]_vars

\* (action_type, value) of the actions sent to the TimescaleDB engine
TimescaleInputs ==
    { <<"level_progress", 1>>, <<"level_progress", 200>>, <<"trade", 1>> }

NextTimescale ==
    \/ \E p \in UPlayers, in \in TimescaleInputs, db \in TimescaleOutcomes :
          TimescaleAnalyzeAction(p, in, db, MaxWindow)
    \/ \E d \in TickSteps : Tick(d)

SpecTimescale == InitUniversal /\ [][NextTimescale]_vars

\* seconds between calls: within and beyond the five minutes of the cache
CacheSteps == {61, 301}

\* actions and score reads of the TimescaleDB engine
NextTimescaleCache ==
    \/ \E p \in UPlayers, in \in TimescaleInputs, db \in TimescaleOutcomes :
          TimescaleAnalyzeAction(p, in, db, MaxWindow)
    \/ \E p \in UPlayers, db \in TimescaleOutcomes : TimescaleGetRisk(p, db)
    \/ \E p \in UPlayers, db \in TimescaleOutcomes : TimescaleShouldBan(p, db)
    \/ \E d \in CacheSteps : Tick(d)

SpecTimescaleCache == InitUniversal /\ [][NextTimescaleCache]_vars

NextHybrid ==
    \/ \E tid \in DOMAIN tasks, p \in Players, in \in HybridInputs, dbok \in DbOutcomes :
          StartAnalyze(tid, p, in, dbok, MaxCalls)
    \/ \E tid \in DOMAIN tasks, p \in Players : StartRisk(tid, p, MaxCalls)
    \/ \E tid \in DOMAIN tasks : StartCleanup(tid, MaxCalls)
    \/ \E tid \in DOMAIN tasks, o \in RedisOutcomes : RedisServeGet(tid, o)
    \/ \E tid \in DOMAIN tasks, dbok \in DbOutcomes : ResumeGet(tid, dbok)
    \/ \E tid \in DOMAIN tasks, o \in RedisOutcomes : RedisServeSetex(tid, o)
    \/ \E tid \in DOMAIN tasks, dbok \in DbOutcomes : ResumeSetex(tid, dbok)
    \/ \E d \in HybridSteps : Tick(d)

SpecHybrid == InitHybrid /\ [][NextHybrid]_vars

\* redis.get and redis.setex succeed or raise (Redis unreachable)
RedisFaults == {"ok", "error"}

\* analyze_action calls of two players against a memory tier of one entry,
\* with a Redis that may fail
NextEviction ==
    \/ \E tid \in DOMAIN tasks, p \in Players, in \in HybridInputs :
          StartAnalyze(tid, p, in, TRUE, MaxCalls - 1)
    \/ \E tid \in DOMAIN tasks, o \in RedisFaults : RedisServeGet(tid, o)
    \/ \E tid \in DOMAIN tasks : ResumeGet(tid, TRUE)
    \/ \E tid \in DOMAIN tasks, o \in RedisFaults : RedisServeSetex(tid, o)
    \/ \E tid \in DOMAIN tasks : ResumeSetex(tid, TRUE)

SpecEviction == InitHybrid /\ [][NextEviction]_vars

\* a memory tier of two entries (max_memory_players scaled to 2)
QuartileCapacity == 2

\* seconds that pass between two steps of the calls
QuartileSteps == {1}

InitQuartile ==
    /\ InitClock /\ InitUniversalVars /\ InitLegacyVars /\ InitPluginVars
    /\ memory_players = <<>>
    /\ redis_store = [p \in {} |-> 0]
    /\ db_actions = <<>>
    /\ tasks = [x \in 1..MaxInflight |-> IdleTask]
    /\ hist = NoHist
    /\ max_memory_players = QuartileCapacity

\* analyze_action calls of three players against a memory tier of two
\* entries, the clock advancing between calls
NextQuartile ==
    \/ \E tid \in DOMAIN tasks, p \in QuartilePlayers, in \in HybridInputs :
          StartAnalyze(tid, p, in, TRUE, MaxCalls)
    \/ \E tid \in DOMAIN tasks, o \in RedisOutcomes : RedisServeGet(tid, o)
    \/ \E tid \in DOMAIN tasks : ResumeGet(tid, TRUE)
    \/ \E tid \in DOMAIN tasks, o \in RedisOutcomes : RedisServeSetex(tid, o)
    \/ \E tid \in DOMAIN tasks : ResumeSetex(tid, TRUE)
    \/ \E d \in QuartileSteps : Tick(d)

SpecQuartile == InitQuartile /\ [][NextQuartile]_vars

\* calls of three players against a memory tier of two entries, at one
\* instant: every interleaving of their awaits
NextCapacity ==
    \/ \E tid \in DOMAIN tasks, p \in QuartilePlayers, in \in HybridInputs :
          StartAnalyze(tid, p, in, TRUE, MaxCalls)
    \/ \E tid \in DOMAIN tasks, p \in QuartilePlayers : StartRisk(tid, p, MaxCalls)
    \/ \E tid \in DOMAIN tasks, o \in RedisOutcomes : RedisServeGet(tid, o)
    \/ \E tid \in DOMAIN tasks : ResumeGet(tid, TRUE)
    \/ \E tid \in DOMAIN tasks, o \in RedisOutcomes : RedisServeSetex(tid, o)
    \/ \E tid \in DOMAIN tasks : ResumeSetex(tid, TRUE)

SpecCapacity == InitQuartile /\ [][NextCapacity]_vars

\* db.commit() of _store_action succeeds or raises
StoreOutcomes == {TRUE, FALSE}

\* numbered actions of one player, each with a durable store that is
\* reachable or not at the time of the call
NextStore ==
    \/ \E tid \in DOMAIN tasks, p \in UPlayers, dbok \in StoreOutcomes :
          StartAnalyze(tid, p, <<"level_progress", hist.calls + 1, 0>>, dbok, MaxCalls)
    \/ \E tid \in DOMAIN tasks, o \in RedisOutcomes : RedisServeGet(tid, o)
    \/ \E tid \in DOMAIN tasks, dbok \in StoreOutcomes : ResumeGet(tid, dbok)
    \/ \E tid \in DOMAIN tasks, o \in RedisOutcomes : RedisServeSetex(tid, o)
    \/ \E tid \in DOMAIN tasks, dbok \in StoreOutcomes : ResumeSetex(tid, dbok)

\* rules are added to the profiles of two games, more than once
NextRuleIds ==
    \/ \E g \in AllGames, genre \in GenreInputs : RegisterGame(g, genre)
    \/ \E g \in AllGames, r \in CandRules : AddRuleUpTo(g, r, MaxRules + 1)
    \/ \E g \in AllGames, p \in UPlayers :
          AnalyzeAction(g, p, <<"headshot", IntV(60), {}, 0>>, "none", MaxRuleBatch)

SpecRuleIds == InitUniversal /\ [][NextRuleIds]_vars

SpecStore == InitHybrid /\ [][NextStore]_vars

\* calls of the scenario in which a player with a risk score comes back
ReloadCalls == 8

\* one call after another: a player collects a risk score and is evicted
\* for another player, the Redis entry expires, and the player comes back
NextReload ==
    \/ \E p \in Players, in \in HybridInputs : StartAnalyze(1, p, in, TRUE, ReloadCalls)
    \/ \E p \in Players : StartRisk(1, p, ReloadCalls)
    \/ RedisServeGet(1, "ok")
    \/ ResumeGet(1, TRUE)
    \/ RedisServeSetex(1, "ok")
    \/ ResumeSetex(1, TRUE)
    \/ \E d \in HybridSteps : Tick(d)

SpecReload == InitHybrid /\ [][NextReload]_vars

\* every call that has started runs to its end, and the engine does whatever
\* it has left to do
SpecStoreLive == SpecStore /\ WF_vars(NextStore)

\* actions sent after the window is full
WindowOverrun == 2

\* the k-th action of a player carries the value k
NextValue(dq) == IF dq = <<>> THEN 1 ELSE dq[Len(dq)].value.num + 1

\* the calls to the tiered engine have all returned
TieredDone ==
    /\ hist.calls = HYBRID_WINDOW + WindowOverrun
    /\ \A tid \in DOMAIN tasks : tasks[tid].kind = "idle"

\* one player sends numbered actions, one call after the other, first to the
\* tiered engine and then to the universal engine, until the windows have
\* overrun (the engines share no state, so the order between them is fixed
\* without loss)
NextWindow ==
    \/ \E g \in Games, genre \in GenreInputs : TieredDone /\ RegisterGame(g, genre)
    \/ \E g \in Games, p \in UPlayers :
          LET k == NextValue(player_actions[<<g, p>>]) IN
          /\ TieredDone
          /\ k <= DEQUE_MAXLEN + WindowOverrun
          /\ AnalyzeAction(g, p, <<"move_position", IntV(k), {}, 0>>, "none",
                           DEQUE_MAXLEN + 1)
    \/ \E p \in UPlayers :
          StartAnalyze(1, p, <<"level_progress", hist.calls + 1, 0>>, TRUE,
                       HYBRID_WINDOW + WindowOverrun)
    \/ \E tid \in DOMAIN tasks, o \in RedisOutcomes : RedisServeGet(tid, o)
    \/ \E tid \in DOMAIN tasks : ResumeGet(tid, TRUE)

SpecWindow == InitHybrid /\ [][NextWindow]_vars

(***************************************************************************)
(* The plugin manager: plugins are loaded, switched on and off, and the    *)
(* three pipelines run over whatever is registered.                        *)
(***************************************************************************)
NextPlugins ==
    \/ \E plugin \in PluginInputs : LoadPlugin(plugin)
    \/ \E plugin \in PluginInputs, enabled \in BOOLEAN :
          SetPluginStatus(plugin.name, enabled)
    \/ ProcessThroughPlugins
    \/ \E genre \in PluginGenres : DetectWithPlugins(genre)
    \/ SendNotifications

SpecPlugins == InitUniversal /\ [][NextPlugins]_vars

\* detection plugins that declare FPS games, RPG games, every game, or no
\* game type at all
ApplicablePlugins ==
    { Plugin("fps_detection", "detection", "violation", {"fps", "battle_royale"}),
      Plugin("rpg_detection", "detection", "violation", {"rpg"}),
      Plugin("all_detection", "detection", "violation", {"all"}),
      Plugin("generic_detection", "detection", "violation", {}) }

NextApplicable ==
    \/ \E plugin \in ApplicablePlugins : LoadPlugin(plugin)
    \/ \E plugin \in ApplicablePlugins, enabled \in BOOLEAN :
          SetPluginStatus(plugin.name, enabled)
    \/ \E genre \in PluginGenres : DetectWithPlugins(genre)

SpecApplicable == InitUniversal /\ [][NextApplicable]_vars

(***************************************************************************)
(* The registry and its files: games are registered and extended, and the  *)
(* process restarts.                                                       *)
(***************************************************************************)
NextPersistence ==
    \/ \E g \in PersistGames, genre \in GenreInputs : RegisterGame(g, genre)
    \/ \E g \in PersistGames, n \in DOMAIN CandActions : AddAction(g, n)
    \/ \E g \in PersistGames, r \in CandRules : AddRule(g, r)
    \/ Restart

SpecPersistence == InitUniversal /\ [][NextPersistence]_vars

(***************************************************************************)
(* Pattern rules: an FPS game gets a pattern rule and a player's headshots *)
(* arrive with chosen timestamps.                                          *)
(***************************************************************************)
NextPattern ==
    \/ \E g \in Games, genre \in GenreInputs : RegisterGame(g, genre)
    \/ \E g \in Games, r \in PatternRules : AddRule(g, r)
    \/ \E g \in Games, p \in UPlayers, in \in PatternInputs :
          AnalyzeAction(g, p, in, "none", PatternBatch)

SpecPattern == InitUniversal /\ [][NextPattern]_vars

(***************************************************************************)
(* Statistical rules: an FPS game gets a rule with z_threshold 3.0 and a   *)
(* player's positions arrive as ordinary values and an extreme one.        *)
(***************************************************************************)
NextStatistical ==
    \/ \E g \in Games, genre \in GenreInputs : RegisterGame(g, genre)
    \/ \E g \in Games : AddRule(g, ZScoreRule)
    \/ \E g \in Games, p \in UPlayers, in \in StatInputs :
          AnalyzeAction(g, p, in, "none", StatBatch)

SpecStatistical == InitUniversal /\ [][NextStatistical]_vars

(***************************************************************************)
(* An engine with Redis: analyses suspend at the Redis write while games   *)
(* are registered and profiles are extended.                               *)
(***************************************************************************)
NextInflight ==
    \/ \E g \in Games, genre \in GenreInputs : RegisterGame(g, genre)
    \/ \E g \in Games, n \in RangedActions : AddAction(g, n)
    \/ \E g \in Games, r \in {ThresholdRule} : AddRule(g, r)
    \/ \E g \in Games, p \in UPlayers, in \in InflightInputs :
          BeginAnalyze(g, p, in, MaxBatch)
    \/ \E i \in 1..MaxInflight : FinishAnalyze(i)

SpecInflight == InitUniversal /\ [][NextInflight]_vars

(***************************************************************************)
(* Claims on the universal engine                                          *)
(***************************************************************************)
HasViolation(vs, vtype) == \E i \in 1..Len(vs) : vs[i].violation_type = vtype

Ordered(w) == \A i \in 1..Len(w) : \A j \in i..Len(w) : w[i].timestamp <= w[j].timestamp

\* C2: the stored cumulative risk score of every (game, player) stays within
\* [0, 10] after any sequence of analyze_action calls.
C2_StoredScoreWithinCap ==
    \A k \in Keys : 0 <= violation_scores[k] /\ violation_scores[k] <= SCORE_CAP

\* C3: get_player_risk_score returns a value in [0, 10], and of two successive
\* get_player_risk_score calls with no analyze_action in between the second
\* never returns more than the first.
C3_ReadBoundedNonIncreasing ==
    result.op = "risk" =>
        /\ 0 <= result.risk /\ result.risk <= SCORE_CAP
        /\ result.prev >= 0 => result.risk <= result.prev

\* C4: after any sequence of analyze_action calls, also with a timestamp lower
\* than one already in the window, the window is ordered by event timestamp.
C4_WindowOrdered == \A k \in Keys : Ordered(player_actions[k])

\* the three ways of failing validation that C7 names: unknown action_type,
\* numeric value outside the declared value_range, missing required metadata
C7_FailsValidation(defs, a) ==
    \/ a.action_type \notin DOMAIN defs
    \/ /\ a.action_type \in DOMAIN defs
       /\ \/ /\ defs[a.action_type].value_range # NoRange
             /\ IsNumeric(a.value)
             /\ \/ a.value.num < defs[a.action_type].value_range[1]
                \/ a.value.num > defs[a.action_type].value_range[2]
          \/ defs[a.action_type].required_fields \ a.metadata # {}

C8_ValidationShortCircuits ==
    (result.op = "analyze" /\ result.known /\ result.errors # {}) =>
        /\ Len(result.violations) = 1
        /\ result.violations[1].violation_type = "invalid_action"
        /\ result.score_after = result.score_before + INVALID_SEVERITY

\* C10: should_ban_player returns true exactly when the risk score is at least
\* auto_ban_threshold or at least 3 violations of severity >= 4.0 were recorded
\* for the player within the trailing hour.
C10_BanIffScoreOrSevere ==
    (result.op = "should_ban" /\ result.known) =>
        (result.ban <=> (result.risk >= result.threshold \/ result.severe >= 3))

\* C11: the severity of every violation that POST /action returns for an action
\* is in the player's score when the ban decision for that action is taken.
C11_ReturnedSeverityScored ==
    (result.op = "submit" /\ result.known) =>
        result.score_after = result.score_before + SumSeverity(result.returned)

\* C14: analyze_action never raises, whatever the action and whatever the
\* profile that register, addAction and addRule accepted.
C14_NeverRaises == result.op = "analyze" => ~result.raised

\* C15: when the ML engine raises, gives no prediction or gives one of at most
\* 0.7, analyze_action returns exactly the validation and rule violations: the
\* ones it returns with the ML engine disabled.
C15_MLFailureKeepsViolations ==
    [][(player_actions' # player_actions /\ result'.op = "analyze"
        /\ result'.ml \in {"none", "raise", "p500", "p700"}) =>
          result'.violations =
              ValidationViolations(profiles[result'.game], result'.action)
              \o RuleViolations(profiles[result'.game].detection_rules,
                                result'.window_after, now)]_vars

\* C15 witness: with a window of ten actions the ML engine was called and
\* raised, and the call returned a validation and a rule violation
C15_Witness ==
    /\ result.op = "analyze" /\ result.ml = "raise"
    /\ Len(result.window_after) >= ML_MIN_ACTIONS
    /\ Len(result.violations) = 2
    /\ result.violations[1].violation_type = "invalid_action"
    /\ result.violations[2].violation_type = "threshold_exceeded"

\* C16: when the write of the action to the store fails, analyze_action still
\* returns, with the violations and the window and score update of a call whose
\* write succeeds.
C16_StoreFailureHarmless ==
    (result.op = "legacy_analyze" /\ result.store = "error") =>
        LET a == Last(result.window_after)
            expected == legacy_check_rate_limits(a, result.window_after, result.time)
        IN  /\ ~result.raised
            /\ SelectSeq(result.returned,
                         LAMBDA v : v.violation_type = "rate_limit_exceeded") = expected
            /\ result.score_after >= result.score_before + SumSeverity(expected)

\* C17: when neither the warm tier nor the durable store can be reached,
\* analyze_action fails with an error: it never returns a normal violation
\* list computed without the state of the player.
C17_UnreachableStoreFails ==
    (result.op = "timescale_analyze" /\ result.store = "unreachable") => result.raised

\* C18: register of a game_id that is registered already leaves the profile
\* as it is, with the actions and rules added to it since its creation.
C18_DuplicateRegisterKeepsProfile ==
    [][\A g \in AllGames, genre \in GenreInputs :
          (g \in DOMAIN profiles /\ RegisterGame(g, genre)) => profiles' = profiles]_vars

\* C19: analyze_action for a game without a profile returns without raising
\* and leaves every player's window and score as they were.
C19_UnknownGameNoEffect ==
    [][\A g \in AllGames, p \in UPlayers, in \in RegistryInputs :
          (g \notin DOMAIN profiles /\ AnalyzeAction(g, p, in, "none", MaxRuleBatch)) =>
              /\ player_actions' = player_actions
              /\ violation_scores' = violation_scores
              /\ violation_log' = violation_log
              /\ ~result'.raised /\ result'.violations = <<>>]_vars

\* C19 witness: a call for an unregistered game has returned while a player of
\* another game has a window and a score
C19_Witness ==
    /\ result.op = "analyze" /\ ~result.known /\ ~result.raised
    /\ result.game \notin DOMAIN profiles
    /\ \E k \in Keys : player_actions[k] # <<>> /\ violation_scores[k] > 0

\* the violations of the result that come from the rules of the profile
RuleResults(vs) ==
    SelectSeq(vs, LAMBDA v : v.violation_type \notin {"invalid_action", "ml_detection"})

\* the violations of the rules of a profile, each rule evaluated on its own
RECURSIVE EachAlone(_, _, _)
EachAlone(rules, actions, t) ==
    IF rules = <<>> THEN <<>>
    ELSE (IF Head(rules).enabled /\ ~evaluate_rule_raises(Head(rules), actions, t)
          THEN evaluate_rule(Head(rules), actions, t) ELSE <<>>)
         \o EachAlone(Tail(rules), actions, t)

\* C12: the rule violations of one analyze_action are those of every enabled
\* rule evaluated on its own, in profile order: a rule that raises contributes
\* none and every other rule whose condition holds contributes its own.
C12_RulesIndependent ==
    [][(player_actions' # player_actions /\ result'.op = "analyze") =>
        LET rs == profiles[result'.game].detection_rules
            w == result'.window_after
            vs == result'.violations
        IN  /\ RuleResults(vs) = EachAlone(rs, w, now)
            /\ \A i \in 1..Len(rs) :
                  /\ rs[i].rule_id \in {"r_bad", "c_raise"} =>
                        \A j \in 1..Len(vs) : vs[j].rule_id # rs[i].rule_id
                  /\ (rs[i] = LootThresholdRule /\ result'.action.value.num > 10) =>
                        \E j \in 1..Len(vs) : vs[j].rule_id = "r_loot"]_vars

\* C12 witness: a call in which a threshold rule raised, a custom callback
\* raised, and two threshold rules both reported a violation
C12_Witness ==
    /\ result.op = "analyze" /\ result.known
    /\ result.raised_rules = {"r_bad", "c_raise"}
    /\ Len(RuleResults(result.violations)) = 2
    /\ RuleResults(result.violations)[1].rule_id = "r_loot"
    /\ RuleResults(result.violations)[2].rule_id = "r_loot"

\* C13: an action passes the stages in the order Received, Validated,
\* WindowLoaded, PreProcessed, Evaluated, Scored, Persisted, Completed; so the
\* profile validates the action as it was received, before any plugin
\* pre-processing.
C13_StageOrder ==
    (result.op = "submit" /\ result.known) =>
        result.errors = validate_action(profiles[result.game], result.received)

(***************************************************************************)
(* Claims on the hybrid engine                                             *)
(***************************************************************************)
CountIn(seq, x) == Cardinality({ i \in DOMAIN seq : seq[i] = x })

SeenActions(seen) == [i \in DOMAIN seen |-> seen[i].action]

SeenSeverity(seen) == SumSeq([i \in DOMAIN seen |-> seen[i].severity])

\* C1: when an analyze_action call for a player finishes, the player's window
\* holds its own action and the action of every analyze_action call for the
\* same player that finished while it was in flight, and the score holds the
\* severities of all of them: no update of two concurrent calls is lost.
C1_NoLostUpdate ==
    hist.op = "analyze" =>
        LET expected == <<hist.action>> \o SeenActions(hist.seen)
        IN  /\ \A i \in DOMAIN expected :
                 CountIn(hist.window, expected[i]) >= CountIn(expected, expected[i])
            /\ hist.risk >= SumSeq(hist.violations) + SeenSeverity(hist.seen)

Demoting(p) ==
    \E x \in DOMAIN tasks :
        tasks[x].pc \in {"setex_sent", "setex_done"} /\ tasks[x].cur = p

\* C5: outside a demotion in progress, a player's state is never live in
\* memory and in Redis at once: a promotion leaves no warm copy behind.
C5_OneTier ==
    \A p \in Players :
        ~ (/\ p \in MemoryKeys(memory_players)
           /\ RedisLive(redis_store, p, now)
           /\ ~ Demoting(p))

\* C6: the record promoted from Redis has the window and the score the player
\* had when the record was demoted from memory.
C6_PromoteRestoresDemoted ==
    (hist.promoted.src = "redis"
        /\ hist.demoted[hist.promoted.data.player_id].some) =>
        LET d == hist.demoted[hist.promoted.data.player_id]
        IN  /\ hist.promoted.data.actions = d.actions
            /\ hist.promoted.data.risk_score = d.risk_score

\* C9: an action of a rate-limited type yields rate_limit_exceeded exactly when
\* it brings the number of actions of its type in the trailing 60 seconds of
\* the player's window above the limit N, that is from the (N+1)-th on.
C9_RateLimitAtNPlusOne ==
    (hist.op = "analyze" /\ hist.action.action_type \in DOMAIN rate_limits) =>
        ((hist.violations # <<>>) <=> (hist.recent > rate_limits[hist.action.action_type]))

\* C20: capacity eviction discards nothing: whenever _evict_from_memory deletes
\* an entry from the memory tier, that player's entry is in the warm tier.
C20_EvictedIsInWarmTier ==
    [][\A tid \in DOMAIN tasks :
          LET t == tasks[tid] IN
          (/\ t.pc = "setex_done" /\ t.kind # "cleanup"
           /\ tasks'[tid].pc # "setex_done"
           /\ t.cur \in MemoryKeys(memory_players)
           /\ t.cur \notin MemoryKeys(memory_players')) =>
              RedisLive(redis_store', t.cur, now)]_vars


\* the plugins that are enabled and do not raise
Healthy(plugins) == SelectSeq(plugins, LAMBDA q : q.enabled /\ ~plugin_raises(q))

HealthyRegistry == [c \in DOMAIN plugin_registry |-> Healthy(plugin_registry[c])]

EnabledNames(plugins) ==
    { plugins[i].name : i \in { k \in 1..Len(plugins) : plugins[k].enabled } }

SeqRange(s) == { s[i] : i \in 1..Len(s) }

\* C21: a disabled plugin is never invoked and a plugin that raises is
\* skipped: pre-processing, plugin detection with its post-processing, and
\* notification give the output they give without those plugins, and every
\* enabled plugin is invoked
C21_BadPluginsAreSkipped ==
    [][ /\ ProcessThroughPlugins =>
              /\ result'.action =
                     plugins_process_action(Healthy(plugin_registry["data_processor"]),
                                            PluginAction).action
              /\ SeqRange(result'.stages) =
                     EnabledNames(plugin_registry["data_processor"])
        /\ \A genre \in PluginGenres :
              DetectWithPlugins(genre) =>
                 /\ result'.returned =
                        plugins_detect_violations(HealthyRegistry,
                                                  NewProfile(genre)).violations
                 /\ SeqRange(result'.stages) =
                        { q.name : q \in { x \in SeqRange(plugin_registry["detection"]) :
                              x.enabled /\ is_plugin_applicable(x, NewProfile(genre)) } }
                        \cup EnabledNames(plugin_registry["data_processor"])
        /\ SendNotifications =>
              /\ result'.returned =
                     plugins_send_notifications(
                         Healthy(plugin_registry["notification"])).delivered
              /\ SeqRange(result'.stages) =
                     EnabledNames(plugin_registry["notification"])
      ]_vars

\* a pre-processing run over a disabled plugin, then a raising plugin, then a
\* plugin that rewrote the action
C21_Witness ==
    /\ result.op = "process"
    /\ \E i, j, k \in 1..Len(plugin_registry["data_processor"]) :
          LET plugins == plugin_registry["data_processor"] IN
          /\ i < j /\ j < k
          /\ ~plugins[i].enabled
          /\ plugins[j].enabled /\ plugin_raises(plugins[j])
          /\ plugins[k].enabled /\ ~plugin_raises(plugins[k])
          /\ result.stages = << plugins[j].name, plugins[k].name >>
    /\ result.action # result.received

\* C22: a restart, which loads every persisted profile into a new registry,
\* yields the registry that the successful register, addAction and addRule
\* operations had built: same games, action definitions, rules and thresholds
C22_RestartKeepsRegistry ==
    [][ Restart => profiles' = profiles ]_vars

\* what does hold: the games whose id is a plain file name come back as
\* they were
C22_PlainNamesSurvive ==
    [][ Restart =>
           \A g \in DOMAIN profiles :
              (PathParts(g) = << g >> /\ g # "") =>
                 (g \in DOMAIN profiles' /\ profiles'[g] = profiles[g]) ]_vars

\* the window holds at least 5 actions the rule applies to, and their
\* inter-arrival intervals are all the same
EvenlySpaced(rule, actions) ==
    LET relevant_actions ==
            SelectSeq(actions, LAMBDA a : a.action_type \in rule.action_types)
        intervals == Intervals(relevant_actions)
    IN  /\ Len(relevant_actions) >= 5
        /\ \A i \in 1..Len(intervals) : intervals[i] = intervals[1]

ReportsPerfectTiming(violations, rule) ==
    \E i \in 1..Len(violations) :
       /\ violations[i].rule_id = rule.rule_id
       /\ violations[i].violation_type = "suspicious_pattern"
       /\ violations[i].pattern_type = "perfect_timing"

TimingRules(profile) ==
    { r \in { profile.detection_rules[i] : i \in 1..Len(profile.detection_rules) } :
         /\ r.rule_type = "pattern" /\ r.enabled
         /\ "perfect_timing_threshold" \in DOMAIN r.parameters
         /\ r.parameters["perfect_timing_threshold"] > 0 }

\* C23: when an action is analysed and the player's window then holds at
\* least 5 actions matching a pattern rule with a positive
\* perfect_timing_threshold, evenly spaced in time, the call returns a
\* suspicious_pattern violation of that rule with pattern_type perfect_timing
C23_PerfectTimingReported ==
    [][ \A g \in Games, p \in UPlayers, in \in PatternInputs :
           (g \in DOMAIN profiles /\ AnalyzeAction(g, p, in, "none", PatternBatch)) =>
              \A rule \in TimingRules(profiles[g]) :
                 EvenlySpaced(rule, player_actions'[<<g, p>>]) =>
                    ReportsPerfectTiming(result'.violations, rule) ]_vars

\* what does hold: a rule without repetition_threshold reports it
C23_TimingAloneReported ==
    [][ \A g \in Games, p \in UPlayers, in \in PatternInputs :
           (g \in DOMAIN profiles /\ AnalyzeAction(g, p, in, "none", PatternBatch)) =>
              \A rule \in TimingRules(profiles[g]) :
                 ("repetition_threshold" \notin DOMAIN rule.parameters
                  /\ EvenlySpaced(rule, player_actions'[<<g, p>>])) =>
                    ReportsPerfectTiming(result'.violations, rule) ]_vars

C23_TimingAloneWitness ==
    /\ result.op = "analyze"
    /\ "g1" \in DOMAIN profiles
    /\ EvenlySpaced(PerfectTimingRule, player_actions[<<"g1", "p1">>])
    /\ ReportsPerfectTiming(result.violations, PerfectTimingRule)

\* C24: the demotion of a player's entry (capacity eviction or the periodic
\* sweep) does not interleave with an analyze_action for that player: when
\* the entry is deleted from memory after its write to Redis, it still has
\* the window and the score that were serialized, so no action or severity
\* applied by analyze_action is missing from the copy read later
C24_DemotionNotInterleaved ==
    [][\A tid \in DOMAIN tasks :
          LET t == tasks[tid] IN
          (/\ t.pc = "setex_done" /\ t.setex = "ok"
           /\ tasks'[tid].pc # "setex_done"
           /\ t.cur \in MemoryKeys(memory_players)) =>
              LET written == json_loads(t.payload)
                  deleted == Get(memory_players, t.cur)
              IN  /\ written.actions = deleted.actions
                  /\ written.risk_score = deleted.risk_score]_vars

\* C25: an analyze_action that is in flight while addRule or addAction
\* changes its profile works on one snapshot: when its rule loop runs, the
\* profile has the action definitions and the rule list it had at validation
C25_OneProfileSnapshot ==
    [][\A i \in 1..Len(inflight) :
          FinishAnalyze(i) =>
             /\ ProfileObject(inflight[i]).actions = inflight[i].validated.actions
             /\ ProfileObject(inflight[i]).detection_rules
                   = inflight[i].validated.detection_rules]_vars

\* the violation types that the rule loop of analyze_action produces
RuleViolationTypes ==
    {"rate_limit_exceeded", "threshold_exceeded", "suspicious_pattern", "custom_rule"}

\* C26: while an action of type T is analysed, a rule contributes a violation
\* only if it is enabled and T is one of its action_types: an action of
\* another type never makes the rule report (again) what older actions in the
\* window did
C26_OnlyApplicableRulesReport ==
    [][ (/\ result'.op = "analyze" /\ result'.known
         /\ player_actions' # player_actions) =>
           \A i \in 1..Len(result'.violations) :
              LET v == result'.violations[i]
                  rules == profiles[result'.game].detection_rules
              IN  v.violation_type \in RuleViolationTypes =>
                     \E j \in 1..Len(rules) :
                        /\ rules[j].rule_id = v.rule_id
                        /\ rules[j].enabled
                        /\ result'.action.action_type \in rules[j].action_types ]_vars

\* C27: the score that get_player_risk_score returns depends on the
\* severities accumulated and on the time since the last update, not on the
\* reads made before: a second read at the same instant returns what the
\* first one returned
C27_ReadsDoNotChangeScore ==
    [][\A g \in Games, p \in UPlayers :
          GetPlayerRiskScore(g, p) => RiskRead(g, p)'[2] = result'.risk]_vars

\* a call of cleanup_old_data returns in this step
CleanupCompletes ==
    /\ hist'.op = "cleanup"
    /\ \/ /\ hist'.calls # hist.calls
          /\ \A tid \in DOMAIN tasks : tasks'[tid].kind = tasks[tid].kind
       \/ \E tid \in DOMAIN tasks :
             tasks[tid].kind = "cleanup" /\ tasks'[tid].kind = "idle"

\* the entry of p in memory, or live in Redis, was last accessed more than an
\* hour before t
StaleInMemory(mem, p, t) ==
    p \in MemoryKeys(mem) /\ t - Get(mem, p).last_access > HOUR

StaleInRedis(store, p, t) ==
    RedisLive(store, p, t) /\ t - json_loads(store[p].text).last_access > HOUR

\* C28: when the sweep completes, no entry last accessed longer ago than the
\* inactivity threshold is left in the memory tier or in the warm tier
C28_SweepLeavesNoStaleEntry ==
    [][ CleanupCompletes =>
           \A p \in Players :
              /\ ~ StaleInMemory(memory_players', p, now)
              /\ ~ StaleInRedis(redis_store', p, now) ]_vars

\* what does hold for the memory tier when no other call is in flight
C28_SweepEmptiesMemoryOfStale ==
    [][ (CleanupCompletes /\ \A tid \in DOMAIN tasks : tasks'[tid].kind = "idle") =>
           \A p \in Players : ~ StaleInMemory(memory_players', p, now) ]_vars

\* the sweep leaves the rows of the durable store alone
C28_SweepKeepsDurableStore ==
    [][ CleanupCompletes => db_actions' = db_actions ]_vars

\* _evict_from_memory starts in this step in the coroutine of slot tid
EvictionStarts(tid) ==
    /\ tasks[tid].pc # "setex_sent"
    /\ tasks'[tid].pc = "setex_sent"
    /\ tasks'[tid].kind # "cleanup"

\* the coroutine of slot tid executes del self.memory_players[player_id] of
\* _evict_from_memory in this step
EvictionDeletes(tid) ==
    /\ tasks[tid].pc = "setex_done"
    /\ tasks[tid].kind # "cleanup"
    /\ tasks'[tid].pc # "setex_done"
    /\ tasks[tid].cur \in MemoryKeys(memory_players)

\* C29: an eviction on a memory tier of n entries takes max(1, n div 4)
\* entries, and every entry it removes was last accessed no later than every
\* entry that stays in memory
C29_EvictsLeastRecentQuartile ==
    [][\A tid \in DOMAIN tasks :
         /\ EvictionStarts(tid) =>
               Len(tasks'[tid].pending) + 1 = evict_count(Len(memory_players))
         /\ EvictionDeletes(tid) =>
               \A i \in DOMAIN memory_players' :
                  Get(memory_players, tasks[tid].cur).last_access
                      <= memory_players'[i].last_access ]_vars

\* the number of entries an eviction takes is max(1, n div 4)
C29_EvictionCount ==
    [][\A tid \in DOMAIN tasks :
         EvictionStarts(tid) =>
            Len(tasks'[tid].pending) + 1 = evict_count(Len(memory_players))]_vars

\* new is old with a prepended and, when old was full, its last entry gone
\* (the tiered store keeps the newest action first)
PrependedWithin(old, new, a, cap) ==
    /\ Len(new) = (IF Len(old) >= cap THEN cap ELSE Len(old) + 1)
    /\ new[1] = a
    /\ \A i \in 2..Len(new) : new[i] = old[i - 1]

\* new is old with a appended and, when old was full, its first entry gone
AppendedWithin(old, new, a, cap) ==
    /\ Len(new) = (IF Len(old) >= cap THEN cap ELSE Len(old) + 1)
    /\ new[Len(new)] = a
    /\ \A i \in 1..(Len(new) - 1) :
          new[i] = old[IF Len(old) >= cap THEN i + 1 ELSE i]

\* analyze_action of the universal engine reaches its append for player p of
\* the registered game g in this step
WindowAppend(g, p) ==
    /\ g \in DOMAIN profiles
    /\ AnalyzeAction(g, p, <<"move_position",
                             IntV(NextValue(player_actions[<<g, p>>])), {}, 0>>,
                     "none", DEQUE_MAXLEN + 1)

\* a call of analyze_action of the tiered engine for p, whose entry is in
\* memory, returns in this step
TieredAppend(p) ==
    /\ hist' # hist
    /\ hist'.op = "analyze"
    /\ hist'.player_id = p

\* C30: a window never holds more than its capacity (1000 actions in the
\* universal engine, 100 in the tiered store), and an append to a full window
\* drops exactly the oldest entry and keeps the new action
C30_WindowDropsOldest ==
    [][ /\ \A k \in Keys :
             /\ Len(player_actions'[k]) <= DEQUE_MAXLEN
             /\ WindowAppend(k[1], k[2]) =>
                   AppendedWithin(player_actions[k], player_actions'[k],
                                  result'.action, DEQUE_MAXLEN)
        /\ \A i \in DOMAIN memory_players' :
             Len(memory_players'[i].actions) <= HYBRID_WINDOW
        /\ \A p \in MemoryKeys(memory_players) \cap MemoryKeys(memory_players') :
             TieredAppend(p) =>
                PrependedWithin(Get(memory_players, p).actions,
                                Get(memory_players', p).actions,
                                ActionDict(hist'.action), HYBRID_WINDOW) ]_vars

\* both windows are full and have lost their first actions
C30_Witness ==
    /\ Len(player_actions[<<"g1", "p1">>]) = DEQUE_MAXLEN
    /\ player_actions[<<"g1", "p1">>][1].value.num = WindowOverrun + 1
    /\ player_actions[<<"g1", "p1">>][DEQUE_MAXLEN].value.num
          = DEQUE_MAXLEN + WindowOverrun
    /\ "p1" \in MemoryKeys(memory_players)
    /\ Len(Get(memory_players, "p1").actions) = HYBRID_WINDOW
    /\ Get(memory_players, "p1").actions[HYBRID_WINDOW].value = WindowOverrun + 1
    /\ Get(memory_players, "p1").actions[1].value = HYBRID_WINDOW + WindowOverrun

\* C31: whatever calls of get and analyze have run, interleaved at their
\* awaits or not, the memory tier holds at most max_memory_players entries
C31_MemoryBounded == Len(memory_players) <= max_memory_players

\* the memory tier is full and a second player has been promoted into it
\* after an eviction
C31_Witness ==
    /\ Len(memory_players) = max_memory_players
    /\ \E p \in QuartilePlayers : hist.demoted[p].some
    /\ hist.promoted.src # "none"

\* the k-th action is in the window of a player in memory: analyze_action
\* accepted it
Accepted(k) ==
    \E i \in DOMAIN memory_players :
       \E j \in DOMAIN memory_players[i].actions :
          memory_players[i].actions[j].value = k

\* the k-th action is a row of the player_actions table
Stored(k) == \E i \in DOMAIN db_actions : db_actions[i].value = k

\* a later write has reached the durable store
StoreAvailableAgain(k) == \E i \in DOMAIN db_actions : db_actions[i].value > k

\* C32: an action that analyze_action accepted and whose durable-store write
\* failed is written again later: once the store is available again the
\* action is eventually a row of the store
C32_FailedWriteRetried ==
    \A k \in 1..MaxCalls :
       (Accepted(k) /\ ~Stored(k) /\ StoreAvailableAgain(k)) ~> Stored(k)

\* C33: whatever games were registered and rules added, no profile holds two
\* detection rules with the same rule_id
C33_RuleIdsUnique ==
    \A g \in DOMAIN profiles :
       \A i, j \in DOMAIN profiles[g].detection_rules :
          profiles[g].detection_rules[i].rule_id = profiles[g].detection_rules[j].rule_id
             => i = j

\* a value range that is given and is not a pair with min <= max
InvalidRange(def) ==
    /\ def.value_range # NoRange
    /\ ~ (Len(def.value_range) = 2 /\ def.value_range[1] <= def.value_range[2])

\* C34: adding an action definition whose value range is not a pair with
\* min <= max fails, and leaves the profile in memory and the persisted
\* configuration as they were
C34_InvalidDefinitionRejected ==
    [][\A g \in AllGames, n \in DOMAIN CandActions :
         (InvalidRange(CandActions[n]) /\ AddAction(g, n)) =>
            (profiles' = profiles /\ config_storage' = config_storage)]_vars


\* the detection plugins of the registry that declare the genre or "all"
DeclaresGenre(plugin, genre) ==
    genre \in plugin.game_types \/ "all" \in plugin.game_types

\* C35 as stated: a detection plugin is invoked for a profile only if its
\* declared game types contain the genre of the profile or "all"
C35_InvokedOnlyIfDeclared ==
    [][\A genre \in PluginGenres :
         DetectWithPlugins(genre) =>
            \A i \in DOMAIN plugin_registry["detection"] :
               plugin_registry["detection"][i].name \in SeqRange(result'.stages)
                  => DeclaresGenre(plugin_registry["detection"][i], genre)]_vars

\* C35 amended: a detection plugin is invoked for a profile exactly when it is
\* enabled and either declares no game type at all or declares the genre of
\* the profile or "all"
C35_InvokedIffApplicable ==
    [][\A genre \in PluginGenres :
         DetectWithPlugins(genre) =>
            \A i \in DOMAIN plugin_registry["detection"] :
               LET plugin == plugin_registry["detection"][i] IN
               plugin.name \in SeqRange(result'.stages)
                  <=> (plugin.enabled /\ (plugin.game_types = {}
                                           \/ DeclaresGenre(plugin, genre)))]_vars

\* a detection for a sandbox game invoked the plugin without game types and
\* left out the enabled FPS plugin
C35_Witness ==
    /\ result.op = "detect"
    /\ result.game = "sandbox"
    /\ "generic_detection" \in SeqRange(result.stages)
    /\ "fps_detection" \notin SeqRange(result.stages)
    /\ "fps_detection" \in EnabledNames(plugin_registry["detection"])

StatValues(window, rule) ==
    LET relevant ==
            SelectSeq(window, LAMBDA a : /\ a.action_type \in rule.action_types
                                          /\ IsNumeric(a.value))
    IN  [i \in 1..Len(relevant) |-> relevant[i].value.num]

ReportsAnomaly(violations, rule) ==
    \E i \in 1..Len(violations) :
       /\ violations[i].violation_type = "statistical_anomaly"
       /\ violations[i].rule_id = rule.rule_id

ZScoreRules(profile) ==
    { r \in { profile.detection_rules[i] : i \in 1..Len(profile.detection_rules) } :
         r.rule_type = "statistical" /\ r.enabled /\ "z_threshold" \in DOMAIN r.parameters }

\* C36: when an action is analysed, a statistical rule with z_threshold
\* reports a statistical_anomaly exactly when the player's window then holds at
\* least 10 numeric matching samples and the latest value's z-score against
\* mean and standard deviation of all samples except the latest exceeds
\* z_threshold
C36_AnomalyAgainstBaseline ==
    [][ \A g \in Games, p \in UPlayers, in \in StatInputs :
           (g \in DOMAIN profiles /\ AnalyzeAction(g, p, in, "none", StatBatch)) =>
              \A rule \in ZScoreRules(profiles[g]) :
                 LET values == StatValues(player_actions'[<<g, p>>], rule) IN
                 ReportsAnomaly(result'.violations, rule)
                    <=> (/\ Len(values) >= STAT_MIN_SAMPLES
                         /\ ZScoreAbove_baseline(values, rule.parameters["z_threshold"])) ]_vars


\* a call rebuilds the player's dict from the rows of the database
ReloadedFromDb(p) ==
    /\ hist'.promoted # hist.promoted
    /\ hist'.promoted.src = "db"
    /\ hist'.promoted.data.player_id = p

\* C37: a player whose dict left memory for Redis and who is then rebuilt from
\* the database gets the risk score back that the dict had when it left
C37_ScoreSurvivesReload ==
    [][ \A p \in Players :
           (ReloadedFromDb(p) /\ hist.demoted[p].some) =>
              hist'.promoted.data.risk_score = hist.demoted[p].risk_score ]_vars


\* C38: register_game with any genre string stores a profile under the
\* game_id whose genre is the genre of the enumeration that the string names,
\* or sandbox for a string outside the enumeration
C38_RegisterSucceeds ==
    [][ \A g \in AllGames, genre \in RegisterGenres :
           RegisterGame(g, genre) =>
              /\ g \in DOMAIN profiles'
              /\ profiles'[g].genre =
                    (IF Lower(genre) \in GameGenre THEN Lower(genre) ELSE "sandbox") ]_vars


\* C39: get_player_risk_score and should_ban_player of the TimescaleDB engine,
\* when they return, give the risk score that player_summary holds for the
\* player at the time of the call
C39_ReadsStoredScore ==
    [][ \A p \in UPlayers, db \in TimescaleOutcomes :
           ((TimescaleGetRisk(p, db) \/ TimescaleShouldBan(p, db)) /\ ~result'.raised) =>
              result'.risk = timescale_db.summary[p] ]_vars


\* the loop of an eviction or of a sweep resumes after its write to Redis
DeleteStep(tid) ==
    tasks[tid].pc = "setex_done" /\ tasks'[tid] # tasks[tid]

\* C40: when the loop of _evict_from_memory or of cleanup_old_data resumes
\* after its write to Redis, the entry it is about to delete is still in
\* memory (no entry is deleted twice), and the call does not end in an error
C40_DeleteNeverFails ==
    [][ \A tid \in DOMAIN tasks :
           DeleteStep(tid) =>
              /\ tasks[tid].cur \in MemoryKeys(memory_players)
              /\ hist'.op # "error" ]_vars

====
